---- MODULE Spec2Model ----
(***************************************************************************)
(* The NPSB ISO 8583 switch: the wire codec of src/src/iso8583/encoder.js  *)
(* and the TCP switch of src/unnamed/part_002 (framing, role               *)
(* classification, correlation by STAN, forwarding).                       *)
(*                                                                         *)
(* JavaScript strings and Buffers are sequences of character codes and of  *)
(* bytes: "0100" is <<48, 49, 48, 48>>.  A Map is a sequence of            *)
(* <<key, value>> pairs in insertion order.                                *)
(***************************************************************************)
EXTENDS Integers, Sequences, FiniteSets, TLC

(***************************************************************************)
(* Strings, buffers and numbers                                            *)
(***************************************************************************)

\* The value of a JavaScript NaN where a number is expected.
NaN == -1000000

Min(a, b) == IF a < b THEN a ELSE b
Max(a, b) == IF a > b THEN a ELSE b

\* Array.prototype.includes / membership in the elements of a sequence.
Range(s) == { s[i] : i \in DOMAIN s }

\* The string of the decimal digits ds: Str(<<0, 9>>) is "09".
Str(ds) == [i \in DOMAIN ds |-> ds[i] + 48]

IsDigit(c) == c \in 48..57
IsSpace(c) == c \in {9, 10, 11, 12, 13, 32}

\* Buffer.prototype.slice(start, end): NaN counts as 0, a negative index counts
\* from the end, both ends are clamped to the buffer.
SliceIndex(n, len) ==
  IF n = NaN THEN 0
  ELSE IF n < 0 THEN Max(len + n, 0)
  ELSE Min(n, len)

Slice(buf, start, end) ==
  LET Cut(s, e) == IF e <= s THEN <<>> ELSE SubSeq(buf, s + 1, e)
  IN Cut(SliceIndex(start, Len(buf)), SliceIndex(end, Len(buf)))

\* x + y on JavaScript numbers.
Plus(x, y) == IF x = NaN \/ y = NaN THEN NaN ELSE x + y

\* buffer.toString('ascii'): the high bit of every byte is dropped.
ToAscii(buf) == [i \in DOMAIN buf |-> buf[i] % 128]

\* String.prototype.trim.
TrimStart(s) ==
  IF \A i \in DOMAIN s : IsSpace(s[i]) THEN <<>>
  ELSE LET first == CHOOSE i \in DOMAIN s :
                      /\ ~IsSpace(s[i])
                      /\ \A j \in 1..(i - 1) : IsSpace(s[j])
       IN SubSeq(s, first, Len(s))

TrimEnd(s) ==
  IF \A i \in DOMAIN s : IsSpace(s[i]) THEN <<>>
  ELSE LET last_ == CHOOSE i \in DOMAIN s :
                      /\ ~IsSpace(s[i])
                      /\ \A j \in (i + 1)..Len(s) : IsSpace(s[j])
       IN SubSeq(s, 1, last_)

Trim(s) == TrimEnd(TrimStart(s))

\* String.prototype.padStart / padEnd with a one-character pad, and substring(0, n).
PadStart(s, n, c) == [i \in 1..(Max(n, Len(s)) - Len(s)) |-> c] \o s
PadEnd(s, n, c) == s \o [i \in 1..(Max(n, Len(s)) - Len(s)) |-> c]
Substring0(s, n) == SubSeq(s, 1, Min(n, Len(s)))

\* The value of a string of decimal digits.
RECURSIVE DigitsValue(_)
DigitsValue(s) ==
  IF s = <<>> THEN 0
  ELSE 10 * DigitsValue(SubSeq(s, 1, Len(s) - 1)) + (s[Len(s)] - 48)

\* parseInt(s, 10): leading white space, an optional sign, then the longest run
\* of digits; NaN when there is no digit.
ParseInt(s) ==
  LET Digits(u, neg) ==
        LET Value(n) ==
              IF n = 0 THEN NaN
              ELSE IF neg THEN 0 - DigitsValue(SubSeq(u, 1, n))
              ELSE DigitsValue(SubSeq(u, 1, n))
        IN Value(IF \A i \in DOMAIN u : IsDigit(u[i]) THEN Len(u)
                 ELSE (CHOOSE i \in DOMAIN u :
                         /\ ~IsDigit(u[i])
                         /\ \A j \in 1..(i - 1) : IsDigit(u[j])) - 1)
      Signed(t) ==
        IF t /= <<>> /\ t[1] \in {43, 45}
        THEN Digits(SubSeq(t, 2, Len(t)), t[1] = 45)
        ELSE Digits(t, FALSE)
  IN Signed(TrimStart(s))

\* Number.prototype.toString() of a non-negative integer.
RECURSIVE NumToString(_)
NumToString(n) ==
  IF n < 10 THEN <<n + 48>>
  ELSE NumToString(n \div 10) \o <<(n % 10) + 48>>

\* buffer.toString('hex').toUpperCase() and Buffer.from(hex, 'hex').
HexChar(n) == IF n < 10 THEN n + 48 ELSE n + 55
HexValue(c) ==
  IF c \in 48..57 THEN c - 48
  ELSE IF c \in 65..70 THEN c - 55
  ELSE IF c \in 97..102 THEN c - 87
  ELSE NaN

ToHexUpper(buf) ==
  [i \in 1..(2 * Len(buf)) |->
     IF i % 2 = 1 THEN HexChar(buf[(i + 1) \div 2] \div 16)
     ELSE HexChar(buf[i \div 2] % 16)]

FromHex(hex) ==
  LET pairs == Len(hex) \div 2
      good(k) == HexValue(hex[2 * k - 1]) /= NaN /\ HexValue(hex[2 * k]) /= NaN
      n == IF \A k \in 1..pairs : good(k) THEN pairs
           ELSE (CHOOSE k \in 1..pairs : ~good(k) /\ \A j \in 1..(k - 1) : good(j)) - 1
  IN [k \in 1..n |-> 16 * HexValue(hex[2 * k - 1]) + HexValue(hex[2 * k])]

(***************************************************************************)
(* The field catalog                                                       *)
(***************************************************************************)

FieldDef(t, l, f) == [type |-> t, length |-> l, format |-> f]

ISO8583_FIELDS ==
  (2 :> FieldDef("LLVAR", 19, "N")) @@ (3 :> FieldDef("FIXED", 6, "N")) @@
  (4 :> FieldDef("FIXED", 12, "N")) @@ (5 :> FieldDef("FIXED", 12, "N")) @@
  (6 :> FieldDef("FIXED", 12, "N")) @@ (7 :> FieldDef("FIXED", 10, "N")) @@
  (10 :> FieldDef("FIXED", 8, "N")) @@ (11 :> FieldDef("FIXED", 6, "N")) @@
  (12 :> FieldDef("FIXED", 6, "N")) @@ (13 :> FieldDef("FIXED", 4, "N")) @@
  (18 :> FieldDef("FIXED", 4, "N")) @@ (19 :> FieldDef("FIXED", 3, "N")) @@
  (22 :> FieldDef("FIXED", 3, "N")) @@ (25 :> FieldDef("FIXED", 2, "N")) @@
  (32 :> FieldDef("LLVAR", 11, "N")) @@ (35 :> FieldDef("LLVAR", 37, "Z")) @@
  (37 :> FieldDef("FIXED", 12, "AN")) @@ (38 :> FieldDef("FIXED", 6, "AN")) @@
  (39 :> FieldDef("FIXED", 2, "AN")) @@ (41 :> FieldDef("FIXED", 8, "ANS")) @@
  (42 :> FieldDef("FIXED", 15, "ANS")) @@ (43 :> FieldDef("FIXED", 40, "ANS")) @@
  (49 :> FieldDef("FIXED", 3, "N")) @@ (50 :> FieldDef("FIXED", 3, "AN")) @@
  (51 :> FieldDef("FIXED", 3, "AN")) @@ (52 :> FieldDef("FIXED", 16, "B")) @@
  (53 :> FieldDef("FIXED", 16, "B")) @@ (54 :> FieldDef("LLLVAR", 120, "ANS")) @@
  (70 :> FieldDef("FIXED", 3, "N")) @@ (128 :> FieldDef("FIXED", 16, "B")) @@
  (46 :> FieldDef("LLLVAR", 999, "ANS")) @@ (47 :> FieldDef("LLLVAR", 999, "ANS")) @@
  (48 :> FieldDef("LLLVAR", 999, "ANS")) @@ (103 :> FieldDef("LLVAR", 104, "ANS")) @@
  (112 :> FieldDef("LLLVAR", 999, "AN")) @@ (125 :> FieldDef("LLLVAR", 999, "ANS"))

\* The switch's encoder: new ISO8583Encoder('ascii', 'bcd').
numericEncoding == "bcd"

\* Math.ceil(n / 2).
CeilHalf(n) == (n + 1) \div 2

(***************************************************************************)
(* BCD and bitmaps                                                         *)
(***************************************************************************)

\* parseInt of one character inside (high << 4) | low: NaN becomes 0.
Nibble(c) == IF IsDigit(c) THEN c - 48 ELSE 0

encodeBCD(value) ==
  LET paddedValue == IF Len(value) % 2 = 1 THEN <<48>> \o value ELSE value
  IN [k \in 1..(Len(paddedValue) \div 2) |->
        16 * Nibble(paddedValue[2 * k - 1]) + Nibble(paddedValue[2 * k])]

\* The digits of the buffer with the 0xF nibbles skipped.
RECURSIVE BCDDigits(_)
BCDDigits(buffer) ==
  IF buffer = <<>> THEN <<>>
  ELSE LET high == buffer[1] \div 16
           low == buffer[1] % 16
       IN (IF high = 15 THEN <<>> ELSE <<high + 48>>)
            \o (IF low = 15 THEN <<>> ELSE <<low + 48>>)
            \o BCDDigits(Tail(buffer))

\* decodeBCD that keeps the leftmost digits.
decodeBCD_KeepLeft(buffer, length) ==
  IF \E i \in DOMAIN buffer :
       \/ (buffer[i] \div 16) \in 10..14
       \/ (buffer[i] % 16) \in 10..14
  THEN [ok |-> FALSE, value |-> <<>>]
  ELSE LET Padded(result) ==
             [ok |-> TRUE,
              value |-> PadStart(IF Len(result) > length
                                 THEN SubSeq(result, 1, length)
                                 ELSE result,
                                 length, 48)]
       IN Padded(BCDDigits(buffer))

decodeBCD(buffer, length) ==
  IF \E i \in DOMAIN buffer :
       \/ (buffer[i] \div 16) \in 10..14
       \/ (buffer[i] % 16) \in 10..14
  THEN [ok |-> FALSE, value |-> <<>>]
  ELSE LET Padded(result) ==
             [ok |-> TRUE,
              value |-> PadStart(IF Len(result) > length
                                 THEN SubSeq(result, Len(result) - length + 1,
                                             Len(result))
                                 ELSE result,
                                 length, 48)]
       IN Padded(BCDDigits(buffer))

\* One byte of a bitmap: the bits of the fields first..first + 7 that are in S.
BitmapByte(S, first) ==
  LET bit(k) == IF (first + k) \in S THEN 2 ^ (7 - k) ELSE 0
  IN bit(0) + bit(1) + bit(2) + bit(3) + bit(4) + bit(5) + bit(6) + bit(7)

\* buildBitmap that always appends the secondary bitmap.
buildBitmap_AlwaysSecondary(fieldNumbers) ==
  LET Built(S, hasSecondary) ==
        LET First(v) == IF hasSecondary /\ v < 128 THEN v + 128 ELSE v
            primary == [b \in 1..8 |->
                          IF b = 1
                          THEN First(BitmapByte({n \in S : n >= 1 /\ n <= 64}, 1))
                          ELSE BitmapByte({n \in S : n >= 1 /\ n <= 64},
                                          8 * (b - 1) + 1)]
            secondary == [b \in 1..8 |-> BitmapByte(S, 64 + 8 * (b - 1) + 1)]
        IN IF \E n \in S : n > 128 THEN [ok |-> FALSE, value |-> <<>>]
           ELSE IF hasSecondary
                THEN [ok |-> TRUE,
                      value |-> PadEnd(ToHexUpper(primary \o secondary), 32, 48)]
                ELSE [ok |-> TRUE, value |-> ToHexUpper(primary)]
      Fields(S) == Built(S, TRUE)
  IN Fields(Range(fieldNumbers))

buildBitmap(fieldNumbers) ==
  LET Built(S, hasSecondary) ==
        LET First(v) == IF hasSecondary /\ v < 128 THEN v + 128 ELSE v
            primary == [b \in 1..8 |->
                          IF b = 1
                          THEN First(BitmapByte({n \in S : n >= 1 /\ n <= 64}, 1))
                          ELSE BitmapByte({n \in S : n >= 1 /\ n <= 64},
                                          8 * (b - 1) + 1)]
            secondary == [b \in 1..8 |-> BitmapByte(S, 64 + 8 * (b - 1) + 1)]
        IN IF \E n \in S : n > 128 THEN [ok |-> FALSE, value |-> <<>>]
           ELSE IF hasSecondary
                THEN [ok |-> TRUE,
                      value |-> PadEnd(ToHexUpper(primary \o secondary), 32, 48)]
                ELSE [ok |-> TRUE, value |-> ToHexUpper(primary)]
      Fields(S) == Built(S, \E n \in S : n > 64 /\ n <= 128)
  IN Fields(Range(fieldNumbers))

\* bitmap[i] & (1 << (7 - bitIndex)); a byte past the end of the buffer is undefined.
BitIsSet(bitmap, byteIndex, bitIndex) ==
  /\ byteIndex + 1 <= Len(bitmap)
  /\ (bitmap[byteIndex + 1] \div (2 ^ (7 - bitIndex))) % 2 = 1

\* The increasing sequence of the members of a finite set of integers.
RECURSIVE SortedSeq(_)
SortedSeq(S) ==
  IF S = {} THEN <<>>
  ELSE LET m == CHOOSE x \in S : \A y \in S : x <= y
       IN <<m>> \o SortedSeq(S \ {m})

\* parseBitmap that reports the indicator bit as field 1.
parseBitmap_IndicatorAsField(bitmapHex) ==
  LET Fields(bitmap, hasSecondary) ==
        LET primary == { n \in 1..64 :
                           BitIsSet(bitmap, (n - 1) \div 8, (n - 1) % 8) }
            secondary == IF hasSecondary /\ Len(bitmap) >= 16
                         THEN { n \in 65..128 :
                                  BitIsSet(bitmap, 8 + ((n - 65) \div 8), (n - 65) % 8) }
                         ELSE {}
            totalBitmapLength == IF hasSecondary THEN 16 ELSE 8
        IN IF Len(bitmap) < totalBitmapLength THEN [ok |-> FALSE, value |-> <<>>]
           ELSE [ok |-> TRUE, value |-> SortedSeq(primary) \o SortedSeq(secondary)]
      Parsed(bitmap) == Fields(bitmap, BitIsSet(bitmap, 0, 0))
  IN Parsed(FromHex(bitmapHex))

parseBitmap(bitmapHex) ==
  LET Fields(bitmap, hasSecondary) ==
        LET primary == { n \in 1..64 :
                           /\ BitIsSet(bitmap, (n - 1) \div 8, (n - 1) % 8)
                           /\ ~(n = 1 /\ hasSecondary) }
            secondary == IF hasSecondary /\ Len(bitmap) >= 16
                         THEN { n \in 65..128 :
                                  BitIsSet(bitmap, 8 + ((n - 65) \div 8), (n - 65) % 8) }
                         ELSE {}
            totalBitmapLength == IF hasSecondary THEN 16 ELSE 8
        IN IF Len(bitmap) < totalBitmapLength THEN [ok |-> FALSE, value |-> <<>>]
           ELSE [ok |-> TRUE, value |-> SortedSeq(primary) \o SortedSeq(secondary)]
      Parsed(bitmap) == Fields(bitmap, BitIsSet(bitmap, 0, 0))
  IN Parsed(FromHex(bitmapHex))

(***************************************************************************)
(* Encoding                                                                *)
(***************************************************************************)

\* value.length.toString().padStart(n, '0').
LengthStr(value, n) == PadStart(NumToString(Len(value)), n, 48)

\* Buffer.from(value, 'ascii').toString('binary'): one byte per character.
ToBinary(value) == [i \in DOMAIN value |-> value[i] % 256]

encodeField(fieldNum, value) ==
  IF fieldNum \notin DOMAIN ISO8583_FIELDS THEN LengthStr(value, 2) \o value
  ELSE
    LET fieldDef == ISO8583_FIELDS[fieldNum]
        useBCD == numericEncoding = "bcd"
        Numeric(encoded) == IF useBCD THEN encodeBCD(encoded) ELSE encoded
        LLVar(lengthStr) ==
          IF useBCD
          THEN IF fieldNum = 2 \/ fieldDef.format = "N"
               THEN encodeBCD(lengthStr) \o encodeBCD(value)
               ELSE encodeBCD(lengthStr) \o ToBinary(value)
          ELSE lengthStr \o value
        LLLVar(lengthStr) ==
          IF useBCD
          THEN encodeBCD(PadStart(lengthStr, Len(lengthStr) + (Len(lengthStr) % 2), 48))
                 \o (IF fieldDef.format = "N" THEN encodeBCD(value)
                     ELSE ToBinary(value))
          ELSE lengthStr \o value
    IN CASE fieldDef.type = "FIXED" ->
              IF fieldDef.format = "N"
              THEN Numeric(Substring0(PadStart(value, fieldDef.length, 48),
                                      fieldDef.length))
              ELSE IF fieldDef.format \in {"AN", "ANS"}
              THEN Substring0(PadEnd(value, fieldDef.length, 32), fieldDef.length)
              ELSE Substring0(PadEnd(value, fieldDef.length, 48), fieldDef.length)
         [] fieldDef.type = "LLVAR" -> LLVar(LengthStr(value, 2))
         [] fieldDef.type = "LLLVAR" -> LLLVar(LengthStr(value, 3))

\* The concatenation of the encodings of the fields fieldNumbers[i..].
RECURSIVE EncodeFields(_, _, _)
EncodeFields(fields, fieldNumbers, i) ==
  IF i > Len(fieldNumbers) THEN <<>>
  ELSE encodeField(fieldNumbers[i], fields[fieldNumbers[i]])
         \o EncodeFields(fields, fieldNumbers, i + 1)

ToUpperCase(s) == [i \in DOMAIN s |-> IF s[i] \in 97..122 THEN s[i] - 32 ELSE s[i]]

pack(message) ==
  LET given == Trim(message.bitmap) /= <<>>
      fieldNumbers == SortedSeq(DOMAIN message.fields)
      Packed(built, primary, secondary) ==
        IF ~given /\ ~built.ok THEN [ok |-> FALSE, value |-> <<>>]
        ELSE [ok |-> TRUE,
              value |-> message.mti
                          \o FromHex(IF given THEN ToUpperCase(message.bitmap)
                                     ELSE built.value)
                          \o primary \o secondary]
  IN Packed(buildBitmap(fieldNumbers),
            EncodeFields(message.fields, SelectSeq(fieldNumbers, LAMBDA f : f <= 64), 1),
            EncodeFields(message.fields, SelectSeq(fieldNumbers, LAMBDA f : f > 64), 1))

(***************************************************************************)
(* Decoding                                                                *)
(***************************************************************************)

FieldError == [ok |-> FALSE, value |-> <<>>, length |-> 0]

\* An LLVAR or LLLVAR field: headerBytes bytes of BCD length (digits digits), or
\* digits characters of ASCII length, then the data.
DecodeVariable(fieldDef, isBCDValue, dataBuffer, offset, digits) ==
  LET useBCDLength == numericEncoding = "bcd"
      headerLength == IF useBCDLength THEN CeilHalf(digits) ELSE digits
      Value(fieldBytes, valueBCD) ==
        IF isBCDValue /\ ~valueBCD.ok THEN FieldError
        ELSE [ok |-> TRUE,
              value |-> Trim(IF isBCDValue THEN valueBCD.value ELSE ToAscii(fieldBytes)),
              length |-> headerLength + Len(fieldBytes)]
      Bytes(length, fieldBytes) ==
        Value(fieldBytes,
              IF isBCDValue THEN decodeBCD(fieldBytes, length)
              ELSE [ok |-> TRUE, value |-> <<>>])
      Field(length) ==
        Bytes(length,
             Slice(dataBuffer, Plus(offset, headerLength),
                   Plus(Plus(offset, headerLength),
                        IF isBCDValue /\ length /= NaN THEN CeilHalf(length)
                        ELSE length)))
      Header(lengthBytes, lengthBCD) ==
        IF useBCDLength /\ ~lengthBCD.ok THEN FieldError
        ELSE Field(IF useBCDLength THEN ParseInt(lengthBCD.value)
                   ELSE ParseInt(ToAscii(lengthBytes)))
      Length(lengthBytes) == Header(lengthBytes, decodeBCD(lengthBytes, digits))
  IN Length(Slice(dataBuffer, offset, Plus(offset, headerLength)))

decodeFieldFromBuffer(fieldNum, dataBuffer, offset) ==
  IF fieldNum \notin DOMAIN ISO8583_FIELDS
  THEN LET Unknown(length) ==
             [ok |-> TRUE,
              value |-> ToAscii(Slice(dataBuffer, Plus(offset, 2),
                                      Plus(Plus(offset, 2), length))),
              length |-> Plus(2, length)]
       IN Unknown(ParseInt(ToAscii(Slice(dataBuffer, offset, Plus(offset, 2)))))
  ELSE
    LET fieldDef == ISO8583_FIELDS[fieldNum]
        useBCD == numericEncoding = "bcd"
        Numeric(decoded) ==
          IF decoded.ok
          THEN [ok |-> TRUE, value |-> decoded.value,
                length |-> CeilHalf(fieldDef.length)]
          ELSE FieldError
        Text(value) ==
          [ok |-> TRUE,
           value |-> IF fieldDef.format = "N" THEN value ELSE Trim(value),
           length |-> fieldDef.length]
    IN IF fieldDef.type = "FIXED"
       THEN IF fieldDef.format = "N" /\ useBCD
            THEN Numeric(decodeBCD(Slice(dataBuffer, offset,
                                         Plus(offset, CeilHalf(fieldDef.length))),
                                   fieldDef.length))
            ELSE Text(ToAscii(Slice(dataBuffer, offset,
                                    Plus(offset, fieldDef.length))))
       ELSE DecodeVariable(fieldDef,
                           IF fieldDef.type = "LLVAR"
                           THEN (fieldDef.format = "N" \/ fieldNum = 2) /\ useBCD
                           ELSE fieldDef.format = "N" /\ useBCD,
                           dataBuffer, offset,
                           IF fieldDef.type = "LLVAR" THEN 2 ELSE 3)

\* The least number of bytes the field can take (the reduce of unpackFromBuffer).
MinFieldLength(fieldNum) ==
  IF fieldNum \in DOMAIN ISO8583_FIELDS
  THEN LET fieldDef == ISO8583_FIELDS[fieldNum]
           useBCD == numericEncoding = "bcd"
       IN CASE fieldDef.type = "FIXED" ->
                 IF fieldDef.format = "N" /\ useBCD
                 THEN CeilHalf(fieldDef.length) ELSE fieldDef.length
            [] fieldDef.type = "LLVAR" -> IF useBCD THEN 1 ELSE 2
            [] fieldDef.type = "LLLVAR" -> IF useBCD THEN 2 ELSE 3
  ELSE 2

RECURSIVE SumMinLength(_, _)
SumMinLength(fieldNumbers, i) ==
  IF i > Len(fieldNumbers) THEN 0
  ELSE MinFieldLength(fieldNumbers[i]) + SumMinLength(fieldNumbers, i + 1)

UnpackError == [ok |-> FALSE, mti |-> <<>>, bitmap |-> <<>>, fields |-> <<>>]

\* The two field loops of unpackFromBuffer, from fieldNumbers[i] and offset on.
RECURSIVE DecodeFields(_, _, _, _, _)
DecodeFields(dataBuffer, fieldNumbers, i, offset, fields) ==
  IF i > Len(fieldNumbers) THEN [ok |-> TRUE, fields |-> fields]
  ELSE IF offset /= NaN /\ offset >= Len(dataBuffer) THEN [ok |-> FALSE, fields |-> <<>>]
  ELSE LET Rest(result) ==
             IF ~result.ok THEN [ok |-> FALSE, fields |-> <<>>]
             ELSE DecodeFields(dataBuffer, fieldNumbers, i + 1,
                               Plus(offset, result.length),
                               (fieldNumbers[i] :> result.value) @@ fields)
       IN Rest(decodeFieldFromBuffer(fieldNumbers[i], dataBuffer, offset))

unpackFromBuffer(dataBuffer) ==
  IF Len(dataBuffer) < 4 THEN UnpackError
  ELSE
    LET mti == ToAscii(Slice(dataBuffer, 0, 4))
        hasSecondary == Len(dataBuffer) >= 5 /\ dataBuffer[5] >= 128
        bitmapLength == IF hasSecondary THEN 16 ELSE 8
        bitmapHex == ToHexUpper(Slice(dataBuffer, 4, 4 + bitmapLength))
        Unpacked(fieldNumbers, decoded) ==
          IF ~fieldNumbers.ok THEN UnpackError
          ELSE IF Len(dataBuffer) < 4 + bitmapLength + SumMinLength(fieldNumbers.value, 1)
          THEN UnpackError
          ELSE IF ~decoded.ok THEN UnpackError
          ELSE [ok |-> TRUE, mti |-> mti, bitmap |-> bitmapHex,
                fields |-> decoded.fields]
    IN IF Len(dataBuffer) < 4 + bitmapLength THEN UnpackError
       ELSE Unpacked(parseBitmap(bitmapHex),
                     DecodeFields(dataBuffer, parseBitmap(bitmapHex).value, 1,
                                  4 + bitmapLength, <<>>))

(***************************************************************************)
(* The switch: state                                                       *)
(***************************************************************************)

VARIABLES
  ACQUIRER_HOSTS,       \* the hosts of NPSB_ACQUIRERS
  ISSUER_HOSTS,         \* the hosts of NPSB_ISSUERS
  connections,          \* socket number -> what its connection listener holds
  acquirerConnections,  \* Map connectionId -> socket
  issuerConnections,    \* Map connectionId -> socket
  pendingByStan,        \* Map STAN -> [socket, connectionId]
  last,                 \* the event handled last and, in order, what it did
  stream,               \* socket number -> where a peer that sends a known byte
                        \* stream is in it, and the payloads dispatched so far
  broken,               \* the sockets whose connection has failed and whose
                        \* 'error' and 'close' have not been emitted yet
  server,               \* "listening", "closing" after server.close(), "stopped"
  codec                 \* a value given to the codec, and what the codec made of it

vars == <<ACQUIRER_HOSTS, ISSUER_HOSTS, connections, acquirerConnections,
          issuerConnections, pendingByStan, last, stream, broken, server,
          codec>>

\* What the listeners of a socket neither read nor change.
environment == <<stream, broken, server, codec>>

\* The number of sockets the server accepts in one run.
MaxSockets == 3

HEADER_LENGTH == 2

\* No socket: the null of getFirstSocket.
NoSocket == 0

(***************************************************************************)
(* Map                                                                     *)
(***************************************************************************)

MapHas(map, key) == \E i \in DOMAIN map : map[i][1] = key
MapGet(map, key) == map[CHOOSE i \in DOMAIN map : map[i][1] = key][2]
MapKeys(map) == { map[i][1] : i \in DOMAIN map }

\* Map.prototype.set as an append: a key that is present gets a second entry.
MapSet_Append(map, key, value) == Append(map, <<key, value>>)

\* Map.prototype.set: a key that is present keeps its place and takes the value.
MapSet(map, key, value) ==
  IF MapHas(map, key)
  THEN [i \in DOMAIN map |-> IF map[i][1] = key THEN <<key, value>> ELSE map[i]]
  ELSE Append(map, <<key, value>>)

MapDelete(map, key) == SelectSeq(map, LAMBDA e : e[1] /= key)

(***************************************************************************)
(* Messages the switch builds                                              *)
(***************************************************************************)

MTI_0100 == Str(<<0, 1, 0, 0>>)
MTI_0110 == Str(<<0, 1, 1, 0>>)
MTI_0210 == Str(<<0, 2, 1, 0>>)
MTI_0410 == Str(<<0, 4, 1, 0>>)
MTI_0810 == Str(<<0, 8, 1, 0>>)

packIsoMessage(mti, fields) ==
  LET Binary(packed) == [i \in DOMAIN packed |-> packed[i] % 256]
  IN Binary(pack([mti |-> mti, bitmap |-> <<>>, fields |-> fields]).value)

\* wrapWithHeader whose length counts the header too.
wrapWithHeader_LengthOfFrame(buffer) ==
  <<(Len(buffer) + 2) \div 256, (Len(buffer) + 2) % 256>> \o buffer

wrapWithHeader(buffer) ==
  <<Len(buffer) \div 256, Len(buffer) % 256>> \o buffer

\* getFirstSocket that returns the socket registered last.
getFirstSocket_Last(connectionMap) ==
  IF Len(connectionMap) = 0 THEN NoSocket
  ELSE connectionMap[Len(connectionMap)][2]

getFirstSocket(connectionMap) ==
  IF Len(connectionMap) = 0 THEN NoSocket ELSE connectionMap[1][2]

\* message.fields[n] is neither undefined nor the empty string.
HasField(message, n) == n \in DOMAIN message.fields /\ message.fields[n] /= <<>>

\* buildNetworkResponse without the test for '162': 162 is unsupported.
buildNetworkResponse_No162(request, now) ==
  LET present(n) == n \in DOMAIN request.fields
      normalizedInfoCode == Trim(request.fields[70])
  IN packIsoMessage(MTI_0810,
                    (7 :> IF present(7) THEN request.fields[7] ELSE now)
                      @@ (11 :> IF present(11) THEN request.fields[11]
                                ELSE Str(<<0, 0, 0, 0, 0, 0>>))
                      @@ (39 :> IF HasField(request, 70)
                                   /\ normalizedInfoCode
                                        \in {Str(<<0, 0, 1>>), Str(<<0, 0, 2>>),
                                             Str(<<3, 0, 1>>)}
                                THEN Str(<<0, 0>>) ELSE Str(<<9, 6>>))
                      @@ (70 :> IF ~HasField(request, 70) THEN Str(<<0, 0, 0>>)
                                ELSE normalizedInfoCode))

\* buildNetworkResponse with a transmission time of its own in every reply.
buildNetworkResponse_FreshTime(request, now) ==
  LET present(n) == n \in DOMAIN request.fields
      normalizedInfoCode == Trim(request.fields[70])
  IN packIsoMessage(MTI_0810,
                    (7 :> now)
                      @@ (11 :> IF present(11) THEN request.fields[11]
                                ELSE Str(<<0, 0, 0, 0, 0, 0>>))
                      @@ (39 :> IF HasField(request, 70)
                                   /\ normalizedInfoCode
                                        \in {Str(<<0, 0, 1>>), Str(<<0, 0, 2>>),
                                             Str(<<3, 0, 1>>), Str(<<1, 6, 2>>)}
                                THEN Str(<<0, 0>>) ELSE Str(<<9, 6>>))
                      @@ (70 :> IF ~HasField(request, 70) THEN Str(<<0, 0, 0>>)
                                ELSE normalizedInfoCode))

\* now is the value of getTransmissionDateTime() at the call.  The four returns
\* differ in fields 39 and 70 only.
buildNetworkResponse(request, now) ==
  LET present(n) == n \in DOMAIN request.fields
      stan == IF present(11) THEN request.fields[11] ELSE Str(<<0, 0, 0, 0, 0, 0>>)
      transmissionDateTime == IF present(7) THEN request.fields[7] ELSE now
      normalizedInfoCode == Trim(request.fields[70])
      responseCode ==
        IF ~HasField(request, 70) THEN Str(<<9, 6>>)
        ELSE IF normalizedInfoCode = Str(<<1, 6, 2>>) THEN Str(<<0, 0>>)
        ELSE IF normalizedInfoCode
                  \notin {Str(<<0, 0, 1>>), Str(<<0, 0, 2>>), Str(<<3, 0, 1>>)}
        THEN Str(<<9, 6>>)
        ELSE Str(<<0, 0>>)
  IN packIsoMessage(MTI_0810,
                    (7 :> transmissionDateTime) @@ (11 :> stan)
                      @@ (39 :> responseCode)
                      @@ (70 :> IF ~HasField(request, 70) THEN Str(<<0, 0, 0>>)
                                ELSE normalizedInfoCode))

\* buildFailureResponse not echoing the STAN of the request.
buildFailureResponse_ZeroStan(original, responseCode, now) ==
  packIsoMessage(MTI_0110,
                 (7 :> now) @@ (11 :> Str(<<0, 0, 0, 0, 0, 0>>)) @@ (39 :> responseCode))

buildFailureResponse(original, responseCode, now) ==
  packIsoMessage(MTI_0110,
                 (7 :> now)
                   @@ (11 :> IF 11 \in DOMAIN original.fields
                             THEN original.fields[11]
                             ELSE Str(<<0, 0, 0, 0, 0, 0>>))
                   @@ (39 :> responseCode))

(***************************************************************************)
(* Connections                                                             *)
(***************************************************************************)

\* A peer address: host, with the ::ffff: prefix of an IPv4-mapped address or not.
Address(mapped, host) == [mapped |-> mapped, host |-> host]

\* address.replace(/^::ffff:/, '').
normalizeAddress(address) == address.host

ConnectionId(address, port) == <<normalizeAddress(address), port>>

\* determineRole looking at the issuer hosts before the acquirer hosts.
determineRole_IssuerHostsFirst(address, acquirers, issuers, acquirerHosts, issuerHosts) ==
  LET normalized == normalizeAddress(address)
  IN IF normalized \in {"127.0.0.1", "::1"} THEN "acquirer"
     ELSE IF normalized \in issuerHosts THEN "issuer"
     ELSE IF normalized \in acquirerHosts THEN "acquirer"
     ELSE IF Len(acquirers) = 0 THEN "acquirer"
     ELSE IF Len(issuers) = 0 THEN "issuer"
     ELSE "unknown"

\* determineRole with no role left over: a peer is an issuer when an acquirer
\* is connected.
determineRole_NoUnknown(address, acquirers, issuers, acquirerHosts, issuerHosts) ==
  LET normalized == normalizeAddress(address)
  IN IF normalized \in {"127.0.0.1", "::1"} THEN "acquirer"
     ELSE IF normalized \in acquirerHosts THEN "acquirer"
     ELSE IF normalized \in issuerHosts THEN "issuer"
     ELSE IF Len(acquirers) = 0 THEN "acquirer"
     ELSE "issuer"

determineRole(address, acquirers, issuers, acquirerHosts, issuerHosts) ==
  LET normalized == normalizeAddress(address)
  IN IF normalized \in {"127.0.0.1", "::1"} THEN "acquirer"
     ELSE IF normalized \in acquirerHosts THEN "acquirer"
     ELSE IF normalized \in issuerHosts THEN "issuer"
     ELSE IF Len(acquirers) = 0 THEN "acquirer"
     ELSE IF Len(issuers) = 0 THEN "issuer"
     ELSE "unknown"

(***************************************************************************)
(* The environment: configurations, peers and the bytes they send          *)
(***************************************************************************)

Hosts(acquirerHosts, issuerHosts) == [acquirers |-> acquirerHosts, issuers |-> issuerHosts]

\* NPSB_ACQUIRERS is unset and NPSB_ISSUERS names one host: the other peers get
\* their role from what is connected when they arrive.
Configurations ==
  { Hosts({}, {"10.0.0.3"}) }

Peer(address, port) == [address |-> address, port |-> port]

Peers ==
  { Peer(Address(TRUE, "127.0.0.1"), 1), Peer(Address(TRUE, "10.0.0.2"), 1),
    Peer(Address(FALSE, "10.0.0.3"), 1) }

\* The values getTransmissionDateTime() returns.
Timestamps == { Str(<<1, 1, 0, 8, 1, 1, 4, 8, 3, 8>>) }

STAN_A == Str(<<0, 9, 4, 9, 0, 6>>)
STAN_B == Str(<<1, 2, 3, 4, 5, 6>>)
Stans == {STAN_A, STAN_B}

\* The bytes of a message: the MTI in ASCII, the bitmap, the fields (a numeric
\* field in BCD).
Message(mti, bitmap, data) == mti \o bitmap \o data

\* A 0100 with fields 3 = "280000" and 11 = STAN_A.
RequestA == Message(MTI_0100, <<32, 32, 0, 0, 0, 0, 0, 0>>, <<40, 0, 0, 9, 73, 6>>)
\* The same STAN with a 0xF pad nibble and a byte after the last field: bytes
\* that no encoding of the parsed message gives back.
RequestAPadded == Message(MTI_0100, <<0, 32, 0, 0, 0, 0, 0, 0>>, <<249, 73, 6, 0>>)
\* A 0100 with field 11 = STAN_B.
RequestB == Message(MTI_0100, <<0, 32, 0, 0, 0, 0, 0, 0>>, <<18, 52, 86>>)
\* A 0100 with field 3 only.
RequestNoStan == Message(MTI_0100, <<32, 0, 0, 0, 0, 0, 0, 0>>, <<40, 0, 0>>)
\* Responses with field 11 and field 39 = "00" or "05".
ResponseA == Message(MTI_0110, <<0, 32, 0, 0, 2, 0, 0, 0>>, <<9, 73, 6, 48, 48>>)
ResponseA0210 == Message(MTI_0210, <<0, 32, 0, 0, 2, 0, 0, 0>>, <<9, 73, 6, 48, 53>>)
ResponseB0410 == Message(MTI_0410, <<0, 32, 0, 0, 2, 0, 0, 0>>, <<18, 52, 86, 48, 48>>)
\* A 0110 with field 39 only.
ResponseNoStan == Message(MTI_0110, <<0, 0, 0, 0, 2, 0, 0, 0>>, <<48, 48>>)
\* A 0800 with fields 11 = STAN_A and 70 = "301".
Heartbeat ==
  Message(Str(<<0, 8, 0, 0>>),
          <<128, 32, 0, 0, 0, 0, 0, 0, 4, 0, 0, 0, 0, 0, 0, 0>>, <<9, 73, 6, 3, 1>>)
\* Too short for a bitmap: unpackFromBuffer throws.
Malformed == Message(MTI_0100, <<0, 32>>, <<>>)

\* A 0800 with fields 7 = "0102030405", 11 = STAN_B and 70 = "001".
SignOn ==
  Message(Str(<<0, 8, 0, 0>>),
          <<130, 32, 0, 0, 0, 0, 0, 0, 4, 0, 0, 0, 0, 0, 0, 0>>,
          <<1, 2, 3, 4, 5, 18, 52, 86, 0, 1>>)
\* A 0800 with field 70 = "002" only.
SignOff ==
  Message(Str(<<0, 8, 0, 0>>),
          <<128, 0, 0, 0, 0, 0, 0, 0, 4, 0, 0, 0, 0, 0, 0, 0>>, <<0, 2>>)
\* A 0800 with fields 11 = STAN_A and 70 = "162".
KeyExchange ==
  Message(Str(<<0, 8, 0, 0>>),
          <<128, 32, 0, 0, 0, 0, 0, 0, 4, 0, 0, 0, 0, 0, 0, 0>>, <<9, 73, 6, 1, 98>>)
\* A 0800 with fields 11 = STAN_A and 70 = "777".
UnsupportedInfoCode ==
  Message(Str(<<0, 8, 0, 0>>),
          <<128, 32, 0, 0, 0, 0, 0, 0, 4, 0, 0, 0, 0, 0, 0, 0>>, <<9, 73, 6, 7, 119>>)
\* A 0800 with field 11 = STAN_A and no field 70.
NoInfoCode == Message(Str(<<0, 8, 0, 0>>), <<0, 32, 0, 0, 0, 0, 0, 0>>, <<9, 73, 6>>)
\* A 0820 with fields 11 = STAN_A and 70 = "301".
Advice0820 ==
  Message(Str(<<0, 8, 2, 0>>),
          <<128, 32, 0, 0, 0, 0, 0, 0, 4, 0, 0, 0, 0, 0, 0, 0>>, <<9, 73, 6, 3, 1>>)

Payloads ==
  { RequestA, RequestAPadded, RequestB, RequestNoStan, ResponseA, ResponseA0210,
    ResponseB0410, ResponseNoStan, Heartbeat, Malformed, <<>>,
    SignOn, SignOff, KeyExchange, UnsupportedInfoCode, NoInfoCode, Advice0820 }

\* Two frames in one chunk: two responses to one request, and a response
\* without STAN followed by a response with one.
TwoResponses == wrapWithHeader(ResponseA0210) \o wrapWithHeader(ResponseA)
OrphanThenResponse == wrapWithHeader(ResponseNoStan) \o wrapWithHeader(ResponseB0410)

\* What a peer sends at a time: one whole frame, or two.
Chunks ==
  { wrapWithHeader(p) : p \in { RequestA, RequestAPadded, RequestB, RequestNoStan,
                                ResponseA, Heartbeat, Malformed } }
    \cup {TwoResponses, OrphanThenResponse}

(***************************************************************************)
(* The codec on the bytes of this environment.  The parse of a payload and *)
(* the replies to a message are computed once and looked up afterwards.    *)
(***************************************************************************)

ParseTable == [p \in Payloads |-> unpackFromBuffer(p)]

unpackIsoMessage(buffer) ==
  LET Lookup(table, unpacked) ==
        IF buffer \in DOMAIN table THEN table[buffer] ELSE unpacked
  IN Lookup(ParseTable, unpackFromBuffer(buffer))

Requests ==
  LET Image(table) == { table[p] : p \in DOMAIN table }
  IN Image(ParseTable)

NetworkResponseTable ==
  [request \in { r \in Requests : r.ok }, now \in Timestamps |->
     buildNetworkResponse(request, now)]

NetworkResponse(request, now) ==
  LET Lookup(table, built) ==
        IF <<request, now>> \in DOMAIN table THEN table[request, now] ELSE built
  IN Lookup(NetworkResponseTable, buildNetworkResponse(request, now))

FailureResponseTable ==
  [original \in { r \in Requests : r.ok }, responseCode \in {Str(<<9, 6>>), Str(<<9, 1>>)},
   now \in Timestamps |-> buildFailureResponse(original, responseCode, now)]

FailureResponse(original, responseCode, now) ==
  LET Lookup(table, built) ==
        IF <<original, responseCode, now>> \in DOMAIN table
        THEN table[original, responseCode, now]
        ELSE built
  IN Lookup(FailureResponseTable, buildFailureResponse(original, responseCode, now))

(***************************************************************************)
(* What a handler does, in order: the writes to sockets and the updates    *)
(* of pendingByStan.  A handler works on [pending, effects].               *)
(***************************************************************************)

Write(socket, data) == [kind |-> "write", socket |-> socket, data |-> data, stan |-> <<>>]
PendingSet(stan, socket) == [kind |-> "set", socket |-> socket, data |-> <<>>, stan |-> stan]
PendingDelete(stan) == [kind |-> "delete", socket |-> NoSocket, data |-> <<>>, stan |-> stan]

\* socket.write(data).  A write of a Buffer never throws: a socket that is
\* already destroyed reports the failure later, through its 'error' event.
DoWrite(st, socket, data) ==
  [st EXCEPT !.effects = Append(@, Write(socket, data))]

\* sendBackToAcquirer taking the oldest PendingEntry instead of the STAN's.
sendBackToAcquirer_OldestEntry(st, stan, rawBuffer) ==
  IF ~MapHas(st.pending, stan) THEN st
  ELSE LET pending == st.pending[1][2]
           written == DoWrite(st, pending.socket, wrapWithHeader(rawBuffer))
       IN [pending |-> MapDelete(written.pending, stan),
           effects |-> Append(written.effects, PendingDelete(stan))]

\* sendBackToAcquirer deleting the entry before the write.
sendBackToAcquirer_DeleteFirst(st, stan, rawBuffer) ==
  IF ~MapHas(st.pending, stan) THEN st
  ELSE LET pending == MapGet(st.pending, stan)
           deleted == [pending |-> MapDelete(st.pending, stan),
                       effects |-> Append(st.effects, PendingDelete(stan))]
       IN DoWrite(deleted, pending.socket, wrapWithHeader(rawBuffer))

\* sendBackToAcquirer without the finally clause: the entry stays.
sendBackToAcquirer_NoDelete(st, stan, rawBuffer) ==
  IF ~MapHas(st.pending, stan) THEN st
  ELSE DoWrite(st, MapGet(st.pending, stan).socket, wrapWithHeader(rawBuffer))

sendBackToAcquirer(st, stan, rawBuffer) ==
  IF ~MapHas(st.pending, stan) THEN st
  ELSE LET pending == MapGet(st.pending, stan)
           written == DoWrite(st, pending.socket, wrapWithHeader(rawBuffer))
       IN [pending |-> MapDelete(written.pending, stan),
           effects |-> Append(written.effects, PendingDelete(stan))]

\* cleanupPendingForSocket stopping at the first entry of the socket.
cleanupPendingForSocket_FirstOnly(pending, socket) ==
  IF \A i \in DOMAIN pending : pending[i][2].socket /= socket THEN pending
  ELSE LET first == CHOOSE i \in DOMAIN pending :
                      /\ pending[i][2].socket = socket
                      /\ \A j \in 1..(i - 1) : pending[j][2].socket /= socket
       IN SubSeq(pending, 1, first - 1) \o SubSeq(pending, first + 1, Len(pending))

cleanupPendingForSocket(pending, socket) ==
  SelectSeq(pending, LAMBDA e : e[2].socket /= socket)

StartsWith08(mti) == Len(mti) >= 2 /\ mti[1] = 48 /\ mti[2] = 56

\* handleAcquirerMessage without the return after the reply to a 0100 that has
\* no STAN: the request is forwarded as well.
handleAcquirerMessage_NoReturn(st, issuers, connectionId, socket, message, rawBuffer, now) ==
  IF StartsWith08(message.mti)
  THEN DoWrite(st, socket, wrapWithHeader(NetworkResponse(message, now)))
  ELSE IF message.mti /= MTI_0100 THEN st
  ELSE
    LET replied == IF ~HasField(message, 11)
                   THEN DoWrite(st, socket,
                                wrapWithHeader(FailureResponse(message, Str(<<9, 6>>), now)))
                   ELSE st
        stan == IF HasField(message, 11) THEN message.fields[11] ELSE <<>>
        issuerSocket == getFirstSocket(issuers)
    IN IF issuerSocket = NoSocket
       THEN DoWrite(replied, socket,
                    wrapWithHeader(FailureResponse(message, Str(<<9, 1>>), now)))
       ELSE DoWrite([pending |-> MapSet(replied.pending, stan,
                                        [socket |-> socket,
                                         connectionId |-> connectionId]),
                     effects |-> Append(replied.effects, PendingSet(stan, socket))],
                    issuerSocket, wrapWithHeader(rawBuffer))

\* handleAcquirerMessage forwarding an encoding of the parsed message.
handleAcquirerMessage_Reencode(st, issuers, connectionId, socket, message, rawBuffer, now) ==
  IF StartsWith08(message.mti)
  THEN DoWrite(st, socket, wrapWithHeader(NetworkResponse(message, now)))
  ELSE IF message.mti /= MTI_0100 THEN st
  ELSE IF ~HasField(message, 11)
  THEN DoWrite(st, socket,
               wrapWithHeader(FailureResponse(message, Str(<<9, 6>>), now)))
  ELSE
    LET stan == message.fields[11]
        issuerSocket == getFirstSocket(issuers)
    IN IF issuerSocket = NoSocket
       THEN DoWrite(st, socket,
                    wrapWithHeader(FailureResponse(message, Str(<<9, 1>>), now)))
       ELSE DoWrite([pending |-> MapSet(st.pending, stan,
                                        [socket |-> socket,
                                         connectionId |-> connectionId]),
                     effects |-> Append(st.effects, PendingSet(stan, socket))],
                    issuerSocket,
                    wrapWithHeader(packIsoMessage(message.mti, message.fields)))

\* handleAcquirerMessage looking for an issuer before it looks at the STAN.
handleAcquirerMessage_IssuerFirst(st, issuers, connectionId, socket, message, rawBuffer, now) ==
  IF StartsWith08(message.mti)
  THEN DoWrite(st, socket, wrapWithHeader(NetworkResponse(message, now)))
  ELSE IF message.mti /= MTI_0100 THEN st
  ELSE IF getFirstSocket(issuers) = NoSocket
  THEN DoWrite(st, socket,
               wrapWithHeader(FailureResponse(message, Str(<<9, 1>>), now)))
  ELSE IF ~HasField(message, 11)
  THEN DoWrite(st, socket,
               wrapWithHeader(FailureResponse(message, Str(<<9, 6>>), now)))
  ELSE DoWrite([pending |-> MapSet(st.pending, message.fields[11],
                                   [socket |-> socket, connectionId |-> connectionId]),
                effects |-> Append(st.effects, PendingSet(message.fields[11], socket))],
               getFirstSocket(issuers), wrapWithHeader(rawBuffer))

\* handleAcquirerMessage that answers 91 and records nothing when the issuer's
\* connection has failed.
handleAcquirerMessage_FailBack(st, issuers, connectionId, socket, message, rawBuffer, now) ==
  IF StartsWith08(message.mti)
  THEN DoWrite(st, socket, wrapWithHeader(NetworkResponse(message, now)))
  ELSE IF message.mti /= MTI_0100 THEN st
  ELSE IF ~HasField(message, 11)
  THEN DoWrite(st, socket,
               wrapWithHeader(FailureResponse(message, Str(<<9, 6>>), now)))
  ELSE
    LET stan == message.fields[11]
        issuerSocket == getFirstSocket(issuers)
    IN IF issuerSocket = NoSocket \/ issuerSocket \in broken
       THEN DoWrite(st, socket,
                    wrapWithHeader(FailureResponse(message, Str(<<9, 1>>), now)))
       ELSE DoWrite([pending |-> MapSet(st.pending, stan,
                                        [socket |-> socket,
                                         connectionId |-> connectionId]),
                     effects |-> Append(st.effects, PendingSet(stan, socket))],
                    issuerSocket, wrapWithHeader(rawBuffer))

\* handleAcquirerMessage that takes every MTI but 08xx for a request.
handleAcquirerMessage_AnyMti(st, issuers, connectionId, socket, message, rawBuffer, now) ==
  IF StartsWith08(message.mti)
  THEN DoWrite(st, socket, wrapWithHeader(NetworkResponse(message, now)))
  ELSE IF ~HasField(message, 11)
  THEN DoWrite(st, socket,
               wrapWithHeader(FailureResponse(message, Str(<<9, 6>>), now)))
  ELSE
    LET stan == message.fields[11]
        issuerSocket == getFirstSocket(issuers)
    IN IF issuerSocket = NoSocket
       THEN DoWrite(st, socket,
                    wrapWithHeader(FailureResponse(message, Str(<<9, 1>>), now)))
       ELSE DoWrite([pending |-> MapSet(st.pending, stan,
                                        [socket |-> socket,
                                         connectionId |-> connectionId]),
                     effects |-> Append(st.effects, PendingSet(stan, socket))],
                    issuerSocket, wrapWithHeader(rawBuffer))

handleAcquirerMessage(st, issuers, connectionId, socket, message, rawBuffer, now) ==
  IF StartsWith08(message.mti)
  THEN DoWrite(st, socket, wrapWithHeader(NetworkResponse(message, now)))
  ELSE IF message.mti /= MTI_0100 THEN st
  ELSE IF ~HasField(message, 11)
  THEN DoWrite(st, socket,
               wrapWithHeader(FailureResponse(message, Str(<<9, 6>>), now)))
  ELSE
    LET stan == message.fields[11]
        issuerSocket == getFirstSocket(issuers)
    IN IF issuerSocket = NoSocket
       THEN DoWrite(st, socket,
                    wrapWithHeader(FailureResponse(message, Str(<<9, 1>>), now)))
       ELSE DoWrite([pending |-> MapSet(st.pending, stan,
                                        [socket |-> socket,
                                         connectionId |-> connectionId]),
                     effects |-> Append(st.effects, PendingSet(stan, socket))],
                    issuerSocket, wrapWithHeader(rawBuffer))

\* handleIssuerMessage without the branch for the MTIs that begin with 08.
handleIssuerMessage_No08(st, connectionId, socket, message, rawBuffer, now) ==
  IF message.mti \notin {MTI_0110, MTI_0210, MTI_0410} THEN st
  ELSE IF ~HasField(message, 11) THEN st
  ELSE sendBackToAcquirer(st, message.fields[11], rawBuffer)

\* handleIssuerMessage answering a response without STAN as the acquirer side
\* answers a request without STAN.
handleIssuerMessage_RejectNoStan(st, connectionId, socket, message, rawBuffer, now) ==
  IF StartsWith08(message.mti)
  THEN DoWrite(st, socket, wrapWithHeader(NetworkResponse(message, now)))
  ELSE IF message.mti \notin {MTI_0110, MTI_0210, MTI_0410} THEN st
  ELSE IF ~HasField(message, 11)
  THEN DoWrite(st, socket,
               wrapWithHeader(FailureResponse(message, Str(<<9, 6>>), now)))
  ELSE sendBackToAcquirer(st, message.fields[11], rawBuffer)

\* handleIssuerMessage that takes responses from the first issuer only.
handleIssuerMessage_FirstIssuerOnly(st, connectionId, socket, message, rawBuffer, now) ==
  IF StartsWith08(message.mti)
  THEN DoWrite(st, socket, wrapWithHeader(NetworkResponse(message, now)))
  ELSE IF message.mti \notin {MTI_0110, MTI_0210, MTI_0410} THEN st
  ELSE IF ~HasField(message, 11) THEN st
  ELSE IF getFirstSocket(issuerConnections) /= socket THEN st
  ELSE sendBackToAcquirer(st, message.fields[11], rawBuffer)

handleIssuerMessage(st, connectionId, socket, message, rawBuffer, now) ==
  IF StartsWith08(message.mti)
  THEN DoWrite(st, socket, wrapWithHeader(NetworkResponse(message, now)))
  ELSE IF message.mti \notin {MTI_0110, MTI_0210, MTI_0410} THEN st
  ELSE IF ~HasField(message, 11) THEN st
  ELSE sendBackToAcquirer(st, message.fields[11], rawBuffer)

(***************************************************************************)
(* Framing and dispatch                                                    *)
(***************************************************************************)

\* The while loop of the 'data' listener: the payloads of the complete frames at
\* the head of the buffer, and what stays buffered.
\* The framing that takes one frame for each 'data' event.
FrameLoop_OneFrame(buffer, payloads) ==
  IF Len(buffer) < HEADER_LENGTH THEN [payloads |-> payloads, buffer |-> buffer]
  ELSE LET messageLength == 256 * buffer[1] + buffer[2]
       IN IF Len(buffer) < HEADER_LENGTH + messageLength
          THEN [payloads |-> payloads, buffer |-> buffer]
          ELSE [payloads |-> Append(payloads,
                                    Slice(buffer, HEADER_LENGTH,
                                          HEADER_LENGTH + messageLength)),
                buffer |-> Slice(buffer, HEADER_LENGTH + messageLength, Len(buffer))]

RECURSIVE FrameLoop(_, _)
FrameLoop(buffer, payloads) ==
  IF Len(buffer) < HEADER_LENGTH THEN [payloads |-> payloads, buffer |-> buffer]
  ELSE LET messageLength == 256 * buffer[1] + buffer[2]
       IN IF Len(buffer) < HEADER_LENGTH + messageLength
          THEN [payloads |-> payloads, buffer |-> buffer]
          ELSE FrameLoop(Slice(buffer, HEADER_LENGTH + messageLength, Len(buffer)),
                         Append(payloads,
                                Slice(buffer, HEADER_LENGTH,
                                      HEADER_LENGTH + messageLength)))

\* The body of the loop for one payload, parsed: a payload that does not parse
\* is skipped, another goes to the role's handler.
\* The dispatch with no third role: what is not an issuer is an acquirer.
Dispatch_UnknownAsAcquirer(st, issuers, conn, socket, payload, request, now) ==
  IF ~request.ok THEN st
  ELSE IF conn.role = "issuer"
  THEN handleIssuerMessage(st, conn.connectionId, socket, request, payload, now)
  ELSE handleAcquirerMessage(st, issuers, conn.connectionId, socket, request,
                             payload, now)

Dispatch(st, issuers, conn, socket, payload, request, now) ==
  IF ~request.ok THEN st
  ELSE IF conn.role = "acquirer"
  THEN handleAcquirerMessage(st, issuers, conn.connectionId, socket, request,
                             payload, now)
  ELSE IF conn.role = "issuer"
  THEN handleIssuerMessage(st, conn.connectionId, socket, request, payload, now)
  ELSE st

\* What the loop did with one payload.
DispatchRecord(before, issuers, conn, socket, payload, now) ==
  LET Record(request, done) ==
        [socket |-> socket, role |-> conn.role, payload |-> payload,
         request |-> request,
         before |-> before, after |-> done.pending, effects |-> done.effects]
  IN Record(unpackIsoMessage(payload),
            Dispatch([pending |-> before, effects |-> <<>>], issuers, conn, socket,
                     payload, unpackIsoMessage(payload), now))

\* The records of the payloads payloads[i..], the first dispatched on pending.
RECURSIVE DispatchAll_BreakOnFailure(_, _, _, _, _, _, _)
\* The loop of the 'data' listener leaving at a payload that does not parse.
DispatchAll_BreakOnFailure(pending, issuers, conn, socket, payloads, i, now) ==
  IF i > Len(payloads) THEN <<>>
  ELSE LET Rest(record) ==
             IF ~record.request.ok THEN <<record>>
             ELSE <<record>> \o DispatchAll_BreakOnFailure(record.after, issuers, conn,
                                                           socket, payloads, i + 1, now)
       IN Rest(DispatchRecord(pending, issuers, conn, socket, payloads[i], now))

RECURSIVE DispatchAll(_, _, _, _, _, _, _)
DispatchAll(pending, issuers, conn, socket, payloads, i, now) ==
  IF i > Len(payloads) THEN <<>>
  ELSE LET Rest(record) ==
             <<record>> \o DispatchAll(record.after, issuers, conn, socket, payloads,
                                       i + 1, now)
       IN Rest(DispatchRecord(pending, issuers, conn, socket, payloads[i], now))

(***************************************************************************)
(* The switch: events                                                      *)
(***************************************************************************)

Sockets == DOMAIN connections
OpenSockets == { c \in Sockets : connections[c].open }

(***************************************************************************)
(* Reading an event: what was received and what was done with it           *)
(***************************************************************************)

\* A 0100 from an acquirer, a 0110/0210/0410 from an issuer.
IsRequest(d) == d.role = "acquirer" /\ d.request.ok /\ d.request.mti = MTI_0100
IsResponse(d) ==
  /\ d.role = "issuer"
  /\ d.request.ok
  /\ d.request.mti \in {MTI_0110, MTI_0210, MTI_0410}

HasStan(d) == 11 \in DOMAIN d.request.fields
StanOf(d) == d.request.fields[11]

\* An issuer response whose STAN had a PendingEntry when it was dispatched.
IsMatched(d) == IsResponse(d) /\ HasStan(d) /\ MapHas(d.before, StanOf(d))
\* An issuer response with no STAN, or whose STAN had no PendingEntry.
IsOrphan(d) == IsResponse(d) /\ ~(HasStan(d) /\ MapHas(d.before, StanOf(d)))

Writes(d) == SelectSeq(d.effects, LAMBDA e : e.kind = "write")

\* The 0100 was sent on to another socket.
IsForwarded(d) ==
  IsRequest(d) /\ \E i \in DOMAIN d.effects :
                    d.effects[i].kind = "write" /\ d.effects[i].socket /= d.socket

\* <<STAN, earlier, later>>: in event e the 0100 of socket later was forwarded
\* with the STAN of a PendingEntry of socket earlier.
Displaced(e) ==
  { <<StanOf(e.dispatches[i]),
      MapGet(e.dispatches[i].before, StanOf(e.dispatches[i])).socket,
      e.dispatches[i].socket>> :
      i \in { j \in DOMAIN e.dispatches :
                /\ IsForwarded(e.dispatches[j])
                /\ MapHas(e.dispatches[j].before, StanOf(e.dispatches[j]))
                /\ MapGet(e.dispatches[j].before, StanOf(e.dispatches[j])).socket
                     /= e.dispatches[j].socket } }

\* The STANs whose PendingEntry went away in event e, a 'close'.
Purged(e) ==
  IF e.op = "close" THEN MapKeys(e.before) \ MapKeys(pendingByStan) ELSE {}

\* The STANs of the 0100s that event e forwarded.
Forwarded(e) ==
  { StanOf(e.dispatches[i]) :
      i \in { j \in DOMAIN e.dispatches : IsForwarded(e.dispatches[j]) } }

\* The STANs of the PendingEntries that the responses of event e consumed.
Consumed(e) ==
  { StanOf(e.dispatches[i]) :
      i \in { j \in DOMAIN e.dispatches : IsMatched(e.dispatches[j]) } }

\* An event: the tables before it, what its handler did, and what is known of
\* the events before it: what the one before displaced, the STANs that a
\* 'close' has purged so far (purged), those of them for which no 0100 has been
\* forwarded since (stale), and the STANs that a response has consumed with no
\* 0100 forwarded since (consumed).
EventWith(op, socket, dispatches, effects) ==
  [op |-> op, socket |-> socket, before |-> pendingByStan,
   acquirers |-> acquirerConnections, issuers |-> issuerConnections,
   dispatches |-> dispatches, effects |-> effects,
   previous |-> [displaced |-> Displaced(last),
                 purged |-> last.previous.purged \cup Purged(last),
                 stale |-> (last.previous.stale \cup Purged(last)) \ Forwarded(last),
                 consumed |-> (last.previous.consumed \cup Consumed(last))
                                \ Forwarded(last)]]

\* An event of a socket: what it did is in its dispatches.
Event(op, socket, dispatches) == EventWith(op, socket, dispatches, <<>>)

\* Nothing has been given to the codec.
NoCodec == [op |-> "none"]

Init ==
  /\ \E h \in Configurations :
       /\ ACQUIRER_HOSTS = h.acquirers
       /\ ISSUER_HOSTS = h.issuers
  /\ connections = <<>>
  /\ acquirerConnections = <<>>
  /\ issuerConnections = <<>>
  /\ pendingByStan = <<>>
  /\ last = [op |-> "start", socket |-> NoSocket, before |-> <<>>,
             acquirers |-> <<>>, issuers |-> <<>>, dispatches |-> <<>>,
             effects |-> <<>>,
             previous |-> [displaced |-> {}, purged |-> {}, stale |-> {},
                           consumed |-> {}]]
  /\ stream = <<>>
  /\ broken = {}
  /\ server = "listening"
  /\ codec = NoCodec

\* The connection listener of net.createServer.  No two open sockets have the
\* same remote address and port.
Connection(peer) ==
  LET socket == Len(connections) + 1
      connectionId == ConnectionId(peer.address, peer.port)
      role == determineRole(peer.address, acquirerConnections, issuerConnections,
                            ACQUIRER_HOSTS, ISSUER_HOSTS)
  IN /\ \A c \in OpenSockets : connections[c].connectionId /= connectionId
     /\ acquirerConnections' =
          IF role = "acquirer" THEN MapSet(acquirerConnections, connectionId, socket)
          ELSE acquirerConnections
     /\ issuerConnections' =
          IF role = "issuer" THEN MapSet(issuerConnections, connectionId, socket)
          ELSE issuerConnections
     /\ connections' = Append(connections,
                              [connectionId |-> connectionId, role |-> role,
                               buffer |-> <<>>, open |-> TRUE])
     /\ last' = Event("connection", socket, <<>>)
     /\ UNCHANGED <<ACQUIRER_HOSTS, ISSUER_HOSTS, pendingByStan>>

\* A connection, while the run has sockets left.
Accept(peer) == Len(connections) < MaxSockets /\ Connection(peer)

\* The 'data' listener of a socket.
Data(socket, chunk, now) ==
  LET conn == connections[socket]
      framed == FrameLoop(conn.buffer \o chunk, <<>>)
      Handled(dispatches) ==
        /\ connections' = [connections EXCEPT ![socket].buffer = framed.buffer]
        /\ pendingByStan' = IF dispatches = <<>> THEN pendingByStan
                            ELSE dispatches[Len(dispatches)].after
        /\ last' = Event("data", socket, dispatches)
  IN /\ conn.open
     /\ Handled(DispatchAll(pendingByStan, issuerConnections, conn, socket,
                            framed.payloads, 1, now))
     /\ UNCHANGED <<ACQUIRER_HOSTS, ISSUER_HOSTS, acquirerConnections,
                    issuerConnections>>

\* A socket after its 'close': the listener's connectionId, role and buffer
\* are gone with it.
Closed == [connectionId |-> <<"", 0>>, role |-> "unknown", buffer |-> <<>>, open |-> FALSE]

\* The 'close' listener that leaves the socket in the role maps.
Closing_KeepRegistered(socket, op) ==
  LET conn == connections[socket]
  IN /\ conn.open
     /\ pendingByStan' = cleanupPendingForSocket(pendingByStan, socket)
     /\ connections' = [connections EXCEPT ![socket] = Closed]
     /\ last' = Event(op, socket, <<>>)
     /\ UNCHANGED <<ACQUIRER_HOSTS, ISSUER_HOSTS, acquirerConnections,
                    issuerConnections>>

\* The 'error' listener that only logs, with no 'close' after it.
Closing_LogOnly(socket, op) ==
  LET conn == connections[socket]
  IN /\ conn.open
     /\ IF op = "error"
        THEN /\ connections' = [connections EXCEPT ![socket] = Closed]
             /\ UNCHANGED <<pendingByStan, acquirerConnections, issuerConnections>>
        ELSE /\ pendingByStan' = cleanupPendingForSocket(pendingByStan, socket)
             /\ acquirerConnections' = MapDelete(acquirerConnections, conn.connectionId)
             /\ issuerConnections' = MapDelete(issuerConnections, conn.connectionId)
             /\ connections' = [connections EXCEPT ![socket] = Closed]
     /\ last' = Event(op, socket, <<>>)
     /\ UNCHANGED <<ACQUIRER_HOSTS, ISSUER_HOSTS>>

\* The 'close' listener of a socket, after the event op that ended the
\* connection.
\* The 'close' listener that empties the table when an issuer closes.
Closing_PurgeForIssuer(socket, op) ==
  LET conn == connections[socket]
  IN /\ conn.open
     /\ pendingByStan' = IF conn.role = "issuer" THEN <<>>
                         ELSE cleanupPendingForSocket(pendingByStan, socket)
     /\ acquirerConnections' = MapDelete(acquirerConnections, conn.connectionId)
     /\ issuerConnections' = MapDelete(issuerConnections, conn.connectionId)
     /\ connections' = [connections EXCEPT ![socket] = Closed]
     /\ last' = Event(op, socket, <<>>)
     /\ UNCHANGED <<ACQUIRER_HOSTS, ISSUER_HOSTS>>

Closing(socket, op) ==
  LET conn == connections[socket]
  IN /\ conn.open
     /\ pendingByStan' = cleanupPendingForSocket(pendingByStan, socket)
     /\ acquirerConnections' = MapDelete(acquirerConnections, conn.connectionId)
     /\ issuerConnections' = MapDelete(issuerConnections, conn.connectionId)
     /\ connections' = [connections EXCEPT ![socket] = Closed]
     /\ last' = Event(op, socket, <<>>)
     /\ UNCHANGED <<ACQUIRER_HOSTS, ISSUER_HOSTS>>

\* The connection ends and 'close' is emitted.
Close(socket) == Closing(socket, "close")

\* The peers send whole frames; their streams are not followed.
Next ==
  \/ \E peer \in Peers : Accept(peer) /\ UNCHANGED environment
  \/ \E socket \in Sockets, chunk \in Chunks, now \in Timestamps :
       Data(socket, chunk, now) /\ UNCHANGED environment
  \/ \E socket \in Sockets : Close(socket) /\ UNCHANGED environment

Spec == Init /\ [][Next]_vars

(***************************************************************************)
(* The switch under network-management traffic                             *)
(***************************************************************************)

\* What a peer sends at a time: one network-management request, or two.
NetworkChunks ==
  { wrapWithHeader(p) : p \in { Heartbeat, SignOn, SignOff, KeyExchange,
                                UnsupportedInfoCode, NoInfoCode, Advice0820 } }
    \cup { wrapWithHeader(SignOn) \o wrapWithHeader(SignOff) }

NetworkNext ==
  \/ \E peer \in Peers : Accept(peer) /\ UNCHANGED environment
  \/ \E socket \in Sockets, chunk \in NetworkChunks, now \in Timestamps :
       Data(socket, chunk, now) /\ UNCHANGED environment
  \/ \E socket \in Sockets : Close(socket) /\ UNCHANGED environment

NetworkSpec == Init /\ [][NetworkNext]_vars

(***************************************************************************)
(* The switch as peers come and go                                         *)
(***************************************************************************)

\* The number of sockets the server accepts in a run of connections only.
MaxRoleSockets == 4

\* No host configured, or: 10.0.0.2 an acquirer and an issuer, 10.0.0.3 an
\* issuer, and the loopback addresses issuers.
RoleConfigurations ==
  { Hosts({}, {}),
    Hosts({"10.0.0.2"}, {"10.0.0.2", "10.0.0.3", "127.0.0.1", "::1"}) }

\* ::ffff:127.0.0.1, ::1, ::ffff:10.0.0.2, 10.0.0.3 and 10.0.0.4.
RolePeers ==
  { Peer(Address(TRUE, "127.0.0.1"), 1), Peer(Address(FALSE, "::1"), 1),
    Peer(Address(TRUE, "10.0.0.2"), 1), Peer(Address(FALSE, "10.0.0.3"), 1),
    Peer(Address(FALSE, "10.0.0.4"), 1) }

RoleInit ==
  /\ \E h \in RoleConfigurations :
       /\ ACQUIRER_HOSTS = h.acquirers
       /\ ISSUER_HOSTS = h.issuers
  /\ connections = <<>>
  /\ acquirerConnections = <<>>
  /\ issuerConnections = <<>>
  /\ pendingByStan = <<>>
  /\ last = [op |-> "start", socket |-> NoSocket, before |-> <<>>,
             acquirers |-> <<>>, issuers |-> <<>>, dispatches |-> <<>>,
             effects |-> <<>>,
             previous |-> [displaced |-> {}, purged |-> {}, stale |-> {},
                           consumed |-> {}]]
  /\ stream = <<>>
  /\ broken = {}
  /\ server = "listening"
  /\ codec = NoCodec

RoleNext ==
  \/ \E peer \in RolePeers :
       Len(connections) < MaxRoleSockets /\ Connection(peer) /\ UNCHANGED environment
  \/ \E socket \in Sockets : Close(socket) /\ UNCHANGED environment

RoleSpec == RoleInit /\ [][RoleNext]_vars

(***************************************************************************)
(* The switch between start and shutdown                                   *)
(***************************************************************************)

\* The fields of the sample account-to-account request, as strings.
buildSampleA2AFields ==
  (2 :> Str(<<0, 0, 0, 0, 9, 5, 0, 0, 0, 0, 0, 0, 0, 0, 0, 0>>)) @@
  (3 :> Str(<<2, 8, 0, 0, 0, 0>>)) @@
  (4 :> Str(<<0, 0, 0, 0, 1, 5, 6, 0, 0, 0, 0, 0>>)) @@
  (7 :> Str(<<1, 1, 0, 8, 1, 1, 4, 8, 3, 8>>)) @@
  (11 :> Str(<<0, 9, 4, 9, 0, 6>>)) @@
  (12 :> Str(<<1, 7, 4, 8, 3, 7>>)) @@
  (13 :> Str(<<1, 1, 0, 8>>)) @@
  (18 :> Str(<<6, 0, 1, 3>>)) @@
  (22 :> Str(<<0, 1, 2>>)) @@
  (32 :> Str(<<0, 0, 0, 0, 1, 5>>)) @@
  (37 :> Str(<<5, 3, 1, 2, 1, 1, 0, 9, 4, 9, 0, 6>>)) @@
  (41 :> Str(<<9, 0, 2, 0, 0, 1, 5, 1>>)) @@
  (42 :> <<65, 76, 45, 65, 82, 65, 70, 65, 72, 32, 66, 65, 78, 75, 32>>) @@
  (43 :> <<97, 105, 98, 108, 32, 105, 45, 98, 97, 110, 107, 105, 110, 103,
     32, 32, 32, 32, 32, 32, 32, 32, 32, 32, 32, 68, 72, 65, 75, 65, 32, 32,
     32, 32, 32, 32, 32, 32, 66, 68>>) @@
  (47 :> Str(<<9, 2, 7, 0, 1, 6, 2, 0, 0, 0, 0, 0, 4, 4, 4, 4, 5, 5, 5, 5,
     6, 0>>)) @@
  (48 :> Str(<<8, 4, 8, 0, 1, 3, 2, 0, 0, 1, 0, 7, 0, 0, 0, 6, 0, 8, 5>>)) @@
  (49 :> Str(<<0, 5, 0>>)) @@
  (103 :> Str(<<2, 0, 0, 1, 0, 7, 0, 0, 0, 6, 0, 8, 5>>)) @@
  (112 :> <<32, 32, 32, 32, 84, 87, 72, 65, 84, 95, 84, 82, 88, 32, 32, 84,
     73, 66, 70, 84, 65, 50, 65>>)

\* packIsoMessage('0100', fields, A2A_BITMAP), with A2A_BITMAP empty.
A2ARequest == packIsoMessage(MTI_0100, buildSampleA2AFields)

\* The connectionId argument left out.
NoConnectionId == <<>>

\* What sendAccountToAccountRequest writes and returns.
\* sendAccountToAccountRequest that takes the acquirer registered last.
sendAccountToAccountRequest_Last(acquirers, connectionId) ==
  LET Sent(targetConnection) ==
        IF targetConnection = NoSocket
        THEN [returned |-> FALSE, socket |-> NoSocket, effects |-> <<>>]
        ELSE [returned |-> TRUE, socket |-> targetConnection,
              effects |-> <<Write(targetConnection, wrapWithHeader(A2ARequest))>>]
  IN Sent(IF connectionId /= NoConnectionId
          THEN IF MapHas(acquirers, connectionId)
               THEN MapGet(acquirers, connectionId) ELSE NoSocket
          ELSE IF Len(acquirers) = 0 THEN NoSocket
          ELSE acquirers[Len(acquirers)][2])

sendAccountToAccountRequest(acquirers, connectionId) ==
  LET Sent(targetConnection) ==
        IF targetConnection = NoSocket
        THEN [returned |-> FALSE, socket |-> NoSocket, effects |-> <<>>]
        ELSE [returned |-> TRUE, socket |-> targetConnection,
              effects |-> <<Write(targetConnection, wrapWithHeader(A2ARequest))>>]
  IN Sent(IF connectionId /= NoConnectionId
          THEN IF MapHas(acquirers, connectionId)
               THEN MapGet(acquirers, connectionId) ELSE NoSocket
          ELSE getFirstSocket(acquirers))

\* The trigger file is found, or the exported function is called.
Inject(connectionId) ==
  LET Done(sent) ==
        last' = EventWith(IF connectionId = NoConnectionId
                          THEN IF sent.returned THEN "inject" ELSE "inject failed"
                          ELSE IF sent.returned THEN "inject to"
                          ELSE "inject to failed",
                          sent.socket, <<>>, sent.effects)
  IN /\ Done(sendAccountToAccountRequest(acquirerConnections, connectionId))
     /\ UNCHANGED <<ACQUIRER_HOSTS, ISSUER_HOSTS, connections, acquirerConnections,
                    issuerConnections, pendingByStan>>

\* The connection of a socket fails: from now on what is written to it is
\* lost, and the socket will emit 'error' and 'close'.
Reset(socket) ==
  /\ socket \in OpenSockets \ broken
  /\ broken' = broken \cup {socket}
  /\ last' = Event("reset", socket, <<>>)
  /\ UNCHANGED <<ACQUIRER_HOSTS, ISSUER_HOSTS, connections, acquirerConnections,
                 issuerConnections, pendingByStan>>

\* The 'error' listener of a socket, which logs, and the 'close' listener that
\* the destroyed socket runs right after it.
SocketError(socket) ==
  /\ socket \in broken
  /\ Closing(socket, "error")
  /\ broken' = broken \ {socket}

\* shutdown, on SIGINT or SIGTERM: clearInterval and serverInstance.close.
Shutdown ==
  /\ server = "listening"
  /\ server' = "closing"
  /\ last' = Event("shutdown", NoSocket, <<>>)
  /\ UNCHANGED <<ACQUIRER_HOSTS, ISSUER_HOSTS, connections, acquirerConnections,
                 issuerConnections, pendingByStan>>

\* The callback of serverInstance.close, once no connection is left:
\* process.exit(0).
Exit ==
  /\ server = "closing"
  /\ OpenSockets = {}
  /\ server' = "stopped"
  /\ last' = Event("exit", NoSocket, <<>>)
  /\ UNCHANGED <<ACQUIRER_HOSTS, ISSUER_HOSTS, connections, acquirerConnections,
                 issuerConnections, pendingByStan>>

\* The two loopback peers, acquirers, and the configured issuer.
LifePeers ==
  { Peer(Address(TRUE, "127.0.0.1"), 1), Peer(Address(FALSE, "::1"), 1),
    Peer(Address(FALSE, "10.0.0.3"), 1) }

\* What a peer sends at a time: a request, two requests, or a response.
LifeChunks ==
  { wrapWithHeader(RequestA), wrapWithHeader(RequestA) \o wrapWithHeader(RequestB),
    wrapWithHeader(ResponseA) }

LifeNext ==
  \/ \E peer \in LifePeers :
       /\ server = "listening"
       /\ Accept(peer)
       /\ UNCHANGED environment
  \/ \E socket \in Sockets \ broken, chunk \in LifeChunks, now \in Timestamps :
       /\ server /= "stopped"
       /\ Data(socket, chunk, now)
       /\ UNCHANGED environment
  \/ \E socket \in Sockets :
       /\ Close(socket)
       /\ broken' = broken \ {socket}
       /\ UNCHANGED <<stream, server, codec>>
  \/ \E socket \in Sockets : Reset(socket) /\ UNCHANGED <<stream, server, codec>>
  \/ \E socket \in Sockets : SocketError(socket) /\ UNCHANGED <<stream, server, codec>>
  \/ \E connectionId \in {NoConnectionId} \cup {ConnectionId(p.address, p.port) : p \in LifePeers} :
       /\ server = "listening"
       /\ Inject(connectionId)
       /\ UNCHANGED environment
  \/ Shutdown /\ UNCHANGED <<stream, broken, codec>>
  \/ Exit /\ UNCHANGED <<stream, broken, codec>>

LifeSpec == Init /\ [][LifeNext]_vars

(***************************************************************************)
(* Properties                                                              *)
(***************************************************************************)

\* What the handler of the last event did with each payload.
Dispatches == { last.dispatches[i] : i \in DOMAIN last.dispatches }

\* The sockets that were registered as issuers when the last event began.
IssuerSockets == { last.issuers[i][2] : i \in DOMAIN last.issuers }

\* data is one frame of payload: its length on two bytes, big-endian, then it.
IsFrameOf(data, payload) ==
  data = <<Len(payload) \div 256, Len(payload) % 256>> \o payload

\* The parse of the replies the switch builds, computed once.
ReplyParseTable ==
  [p \in { NetworkResponseTable[x] : x \in DOMAIN NetworkResponseTable }
           \cup { FailureResponseTable[x] : x \in DOMAIN FailureResponseTable } |->
     unpackFromBuffer(p)]

\* What the receiver of a frame reads in it.
ReadFrame(data) ==
  LET payload == SubSeq(data, HEADER_LENGTH + 1, Len(data))
  IN IF Len(data) < HEADER_LENGTH \/ 256 * data[1] + data[2] /= Len(payload)
     THEN UnpackError
     ELSE IF payload \in DOMAIN ReplyParseTable THEN ReplyParseTable[payload]
     ELSE IF payload \in DOMAIN ParseTable THEN ParseTable[payload]
     ELSE unpackFromBuffer(payload)

\* The frame is a 0110 with the given STAN and response code.
IsFailureReply(data, stan, responseCode) ==
  LET reply == ReadFrame(data)
  IN /\ reply.ok
     /\ reply.mti = MTI_0110
     /\ {11, 39} \subseteq DOMAIN reply.fields
     /\ reply.fields[11] = stan
     /\ reply.fields[39] = responseCode

\* C1: for every parsed 0100 dispatched from an acquirer connection the handler
\* writes exactly one frame: either the request, to an issuer socket, or a
\* synthetic 0110, to the sending acquirer; never both and never neither.
C1_ExactlyOneFrame ==
  \A d \in Dispatches :
    IsRequest(d) =>
      /\ Len(Writes(d)) = 1
      /\ LET w == Writes(d)[1]
             toIssuer == w.socket \in IssuerSockets /\ IsFrameOf(w.data, d.payload)
             synthetic == /\ w.socket = d.socket
                          /\ ReadFrame(w.data).ok
                          /\ ReadFrame(w.data).mti = MTI_0110
         IN toIssuer /= synthetic

\* A 0100 has been forwarded to an issuer while a second acquirer is connected.
C1_Witness ==
  \E d \in Dispatches :
    /\ IsRequest(d)
    /\ Len(Writes(d)) = 1
    /\ Writes(d)[1].socket \in IssuerSockets
    /\ Len(last.acquirers) = 2

\* C2: when an issuer sends 0110, 0210 or 0410 whose field 11 has a
\* PendingEntry, the issuer's payload is written, length-prefixed and byte for
\* byte, to the acquirer socket of that entry, and nothing else is written.
C2_ResponseToRecordedAcquirer ==
  \A d \in Dispatches :
    IsMatched(d) =>
      /\ Len(Writes(d)) = 1
      /\ Writes(d)[1].socket = MapGet(d.before, StanOf(d)).socket
      /\ IsFrameOf(Writes(d)[1].data, d.payload)

\* A 0210 has been delivered while two acquirers each had a PendingEntry.
C2_Witness ==
  \E d \in Dispatches :
    /\ IsMatched(d)
    /\ d.request.mti = MTI_0210
    /\ Len(Writes(d)) = 1
    /\ \E i, j \in DOMAIN d.before : d.before[i][2].socket /= d.before[j][2].socket

\* C3: when an acquirer's 0100 carries a STAN and an issuer is registered, the
\* frame written to the issuer is the two-byte big-endian length followed by the
\* bytes received from the acquirer, not an encoding of the parsed message.
C3_RequestForwardedVerbatim ==
  \A d \in Dispatches :
    (IsRequest(d) /\ HasStan(d) /\ Len(last.issuers) > 0) =>
      \E i \in DOMAIN d.effects :
        /\ d.effects[i].kind = "write"
        /\ d.effects[i].socket \in IssuerSockets
        /\ d.effects[i].data
             = <<Len(d.payload) \div 256, Len(d.payload) % 256>> \o d.payload

\* A 0100 whose bytes differ from the encoding of its parse has been forwarded.
C3_Witness ==
  \E d \in Dispatches :
    /\ IsForwarded(d)
    /\ HasStan(d)
    /\ Len(last.issuers) > 0
    /\ packIsoMessage(d.request.mti, d.request.fields) /= d.payload

\* C4, as claimed: for every issuer 0110/0210/0410 that matches a PendingEntry,
\* the entry of that STAN is deleted before the write to the acquirer socket.
C4_RemovedBeforeWrite ==
  \A d \in Dispatches :
    IsMatched(d) =>
      \A i \in DOMAIN d.effects :
        d.effects[i].kind = "write" =>
          \E j \in 1..(i - 1) : d.effects[j] = PendingDelete(StanOf(d))

\* C4, amended: for every issuer 0110/0210/0410 that matches a PendingEntry,
\* the response is written to the acquirer socket first and the entry of that
\* STAN is deleted next, in the same call, so that the entry is gone when the
\* handler returns.
C4_RemovedAfterWrite ==
  \A d \in Dispatches :
    IsMatched(d) =>
      /\ Len(d.effects) = 2
      /\ d.effects[1].kind = "write"
      /\ d.effects[2] = PendingDelete(StanOf(d))
      /\ ~MapHas(d.after, StanOf(d))

\* A response has been delivered while another STAN was pending, and that
\* other entry stayed.
C4_Witness ==
  \E d \in Dispatches :
    /\ IsMatched(d)
    /\ Len(d.effects) = 2
    /\ Len(d.before) = 2
    /\ Len(d.after) = 1

EntriesOf(pending, stan) == { i \in DOMAIN pending : pending[i][1] = stan }

\* C6: the table never holds two PendingEntries under one STAN; forwarding a
\* 0100 whose STAN has an entry replaces that entry by the sender's; and the
\* issuer response that comes next with that STAN is written to the acquirer
\* of the later 0100 only, the acquirer of the earlier 0100 receiving nothing.
C6_OneEntryPerStan ==
  /\ \A stan \in MapKeys(pendingByStan) :
       Cardinality(EntriesOf(pendingByStan, stan)) = 1
  /\ \A d \in Dispatches :
       IsForwarded(d) =>
         /\ Cardinality(EntriesOf(d.after, StanOf(d))) = 1
         /\ MapGet(d.after, StanOf(d)).socket = d.socket
         /\ Len(d.after) = Len(d.before)
                             + (IF MapHas(d.before, StanOf(d)) THEN 0 ELSE 1)
  /\ \A t \in last.previous.displaced :
       (/\ last.dispatches /= <<>>
        /\ IsResponse(last.dispatches[1])
        /\ HasStan(last.dispatches[1])
        /\ StanOf(last.dispatches[1]) = t[1]) =>
         /\ Len(Writes(last.dispatches[1])) = 1
         /\ Writes(last.dispatches[1])[1].socket = t[3]
         /\ t[3] /= t[2]

\* A response has come right after a second acquirer's 0100 took over the STAN
\* of the first one's PendingEntry, both acquirers being connected.
C6_Witness ==
  /\ last.dispatches /= <<>>
  /\ IsMatched(last.dispatches[1])
  /\ \E t \in last.previous.displaced :
       /\ t[1] = StanOf(last.dispatches[1])
       /\ {t[2], t[3]} \subseteq OpenSockets
       /\ Writes(last.dispatches[1])[1].socket = t[3]

\* C7: the first matching response consumes the PendingEntry; a second response
\* with the same STAN, no 0100 with that STAN having been forwarded in between,
\* is dropped, in the same chunk or in a later one.
C7_SecondResponseDropped ==
  /\ \A d \in Dispatches :
       IsMatched(d) => Len(Writes(d)) = 1 /\ ~MapHas(d.after, StanOf(d))
  /\ \A d \in Dispatches :
       (IsResponse(d) /\ HasStan(d) /\ StanOf(d) \in last.previous.consumed) =>
         d.effects = <<>>
  /\ \A i, j \in DOMAIN last.dispatches :
       (/\ i < j
        /\ IsMatched(last.dispatches[i])
        /\ IsResponse(last.dispatches[j])
        /\ HasStan(last.dispatches[j])
        /\ StanOf(last.dispatches[j]) = StanOf(last.dispatches[i])) =>
         last.dispatches[j].effects = <<>>

\* A second response with a consumed STAN has come in a later chunk, while the
\* acquirer that got the first one is still connected.
C7_Witness ==
  /\ Len(last.acquirers) > 0
  /\ \E d \in Dispatches :
       /\ IsResponse(d)
       /\ HasStan(d)
       /\ StanOf(d) \in last.previous.consumed
       /\ d.effects = <<>>

\* C8: a 0100 with STAN s from an acquirer while no issuer is registered is
\* answered by exactly one frame, to the sender: a 0110 with field 11 = s and
\* field 39 = "91"; nothing is written to another socket and the table is left
\* as it was.
C8_IssuerUnavailable ==
  \A d \in Dispatches :
    (IsRequest(d) /\ HasStan(d) /\ Len(last.issuers) = 0) =>
      /\ Len(d.effects) = 1
      /\ d.effects[1].kind = "write"
      /\ d.effects[1].socket = d.socket
      /\ IsFailureReply(d.effects[1].data, StanOf(d), Str(<<9, 1>>))
      /\ d.after = d.before

\* A 0100 with a STAN has been answered "91" while a PendingEntry was in the
\* table.
C8_Witness ==
  \E d \in Dispatches :
    /\ IsRequest(d)
    /\ HasStan(d)
    /\ Len(last.issuers) = 0
    /\ Len(d.effects) = 1
    /\ d.before /= <<>>

\* C9: a 0100 without field 11 from an acquirer is answered by one 0110 with
\* field 11 = "000000" and field 39 = "96", with or without an issuer
\* registered; nothing goes to an issuer and no PendingEntry is created.
C9_MissingStan ==
  \A d \in Dispatches :
    (IsRequest(d) /\ ~HasStan(d)) =>
      /\ Len(d.effects) = 1
      /\ d.effects[1].kind = "write"
      /\ d.effects[1].socket = d.socket
      /\ d.effects[1].socket \notin IssuerSockets
      /\ IsFailureReply(d.effects[1].data, Str(<<0, 0, 0, 0, 0, 0>>), Str(<<9, 6>>))
      /\ d.after = d.before

\* A 0100 without field 11 has been answered while an issuer was registered.
C9_Witness ==
  \E d \in Dispatches :
    /\ IsRequest(d)
    /\ ~HasStan(d)
    /\ Len(last.issuers) > 0
    /\ Len(d.effects) = 1

\* C10: an issuer's 0110/0210/0410 without field 11, or whose STAN has no
\* PendingEntry, writes nothing and changes neither the table nor the role
\* maps; the issuer's connection stays open and registered, and the frames
\* that follow on it are handled: a matching response behind it is delivered.
C10_OrphanResponseDropped ==
  /\ \A d \in Dispatches :
       IsOrphan(d) =>
         /\ d.effects = <<>>
         /\ d.after = d.before
         /\ acquirerConnections = last.acquirers
         /\ issuerConnections = last.issuers
         /\ connections[d.socket].open
         /\ d.socket \in { issuerConnections[i][2] : i \in DOMAIN issuerConnections }
  /\ \A i, j \in DOMAIN last.dispatches :
       (i < j /\ IsOrphan(last.dispatches[i]) /\ IsMatched(last.dispatches[j])) =>
         Len(Writes(last.dispatches[j])) = 1

\* A response without STAN was dropped and the response behind it, in the same
\* chunk, was delivered.
C10_Witness ==
  \E i, j \in DOMAIN last.dispatches :
    /\ i < j
    /\ IsOrphan(last.dispatches[i])
    /\ ~HasStan(last.dispatches[i])
    /\ IsMatched(last.dispatches[j])
    /\ Len(Writes(last.dispatches[j])) = 1

(***************************************************************************)
(* The switch fed a byte stream in chunks                                  *)
(***************************************************************************)

\* The payloads of the frames a streaming peer sends, in order: a request, a
\* frame of length 0, a payload that does not parse and a network request.
StreamPayloads == <<RequestB, <<>>, Malformed, Heartbeat>>

RECURSIVE StreamUpTo(_)
\* The bytes of the first k frames.
StreamUpTo(k) ==
  IF k = 0 THEN <<>> ELSE StreamUpTo(k - 1) \o wrapWithHeader(StreamPayloads[k])

Stream == StreamUpTo(Len(StreamPayloads))

\* The loopback peer, an acquirer.
StreamPeers == { Peer(Address(TRUE, "127.0.0.1"), 1) }

\* The payloads of the dispatches of one 'data' event.
PayloadsOf(dispatches) == [i \in DOMAIN dispatches |-> dispatches[i].payload]

\* A peer sends the stream from its start on each connection it opens, in
\* chunks of any size; a closed connection's stream is forgotten.
FramerNext ==
  \/ \E peer \in StreamPeers :
       /\ Accept(peer)
       /\ stream' = Append(stream, [sent |-> 0, dispatched |-> <<>>])
       /\ UNCHANGED <<broken, server, codec>>
  \/ \E socket \in Sockets, n \in 1..Len(Stream), now \in Timestamps :
       /\ stream[socket].sent + n <= Len(Stream)
       /\ Data(socket, SubSeq(Stream, stream[socket].sent + 1,
                              stream[socket].sent + n), now)
       /\ stream' = [stream EXCEPT
                       ![socket] = [sent |-> @.sent + n,
                                    dispatched |-> @.dispatched
                                                     \o PayloadsOf(last'.dispatches)]]
       /\ UNCHANGED <<broken, server, codec>>
  \/ \E socket \in Sockets :
       /\ Close(socket)
       /\ stream' = [stream EXCEPT ![socket] = [sent |-> 0, dispatched |-> <<>>]]
       /\ UNCHANGED <<broken, server, codec>>

FramerSpec == Init /\ [][FramerNext]_vars

(***************************************************************************)
(* Properties of the network-management responder                          *)
(***************************************************************************)

\* A message whose MTI begins with 08, from an acquirer or from an issuer.
IsNetworkRequest(d) ==
  d.role \in {"acquirer", "issuer"} /\ d.request.ok /\ StartsWith08(d.request.mti)

\* What the receiver reads in the first frame written for d.
ReplyTo(d) == ReadFrame(Writes(d)[1].data)

\* The information codes that buildNetworkResponse answers with "00".
SupportedInfoCodes ==
  {Str(<<0, 0, 1>>), Str(<<0, 0, 2>>), Str(<<3, 0, 1>>), Str(<<1, 6, 2>>)}

\* C11 as stated: the reply to a network-management request has field 39 = "00"
\* when the request has no field 70 or its field 70 is 001, 002, 301 or 162,
\* and field 39 = "96" for every other field 70.
C11_AbsentInfoCodeAccepted ==
  \A d \in Dispatches :
    IsNetworkRequest(d) =>
      /\ Len(Writes(d)) = 1
      /\ ReplyTo(d).ok
      /\ 39 \in DOMAIN ReplyTo(d).fields
      /\ ReplyTo(d).fields[39] =
           IF 70 \notin DOMAIN d.request.fields
                \/ Trim(d.request.fields[70]) \in SupportedInfoCodes
           THEN Str(<<0, 0>>) ELSE Str(<<9, 6>>)

\* C11, amended: the reply has field 39 = "00" when the request's field 70 is
\* 001, 002, 301 or 162, and field 39 = "96" when the request has no field 70
\* and for every other field 70.
C11_InfoCodeDecidesResponseCode ==
  \A d \in Dispatches :
    IsNetworkRequest(d) =>
      /\ Len(Writes(d)) = 1
      /\ ReplyTo(d).ok
      /\ 39 \in DOMAIN ReplyTo(d).fields
      /\ ReplyTo(d).fields[39] =
           IF 70 \in DOMAIN d.request.fields
                /\ Trim(d.request.fields[70]) \in SupportedInfoCodes
           THEN Str(<<0, 0>>) ELSE Str(<<9, 6>>)

\* A request without field 70 has been answered with "96".
C11_Witness ==
  \E d \in Dispatches :
    /\ IsNetworkRequest(d)
    /\ 70 \notin DOMAIN d.request.fields
    /\ Len(Writes(d)) = 1
    /\ ReplyTo(d).ok
    /\ ReplyTo(d).fields[39] = Str(<<9, 6>>)

\* C12: the reply to a network-management request has the MTI of the request
\* with its third digit raised by one: 0810 for a 0800, 0830 for a 0820.
C12_ReplyMtiFollowsRequest ==
  \A d \in Dispatches :
    IsNetworkRequest(d) =>
      /\ Len(Writes(d)) = 1
      /\ ReplyTo(d).ok
      /\ d.request.mti = Str(<<0, 8, 0, 0>>) => ReplyTo(d).mti = Str(<<0, 8, 1, 0>>)
      /\ d.request.mti = Str(<<0, 8, 2, 0>>) => ReplyTo(d).mti = Str(<<0, 8, 3, 0>>)

\* A 0820 has been answered with a 0810.
C12_Witness ==
  \E d \in Dispatches :
    /\ IsNetworkRequest(d)
    /\ d.request.mti = Str(<<0, 8, 2, 0>>)
    /\ Len(Writes(d)) = 1
    /\ ReplyTo(d).ok
    /\ ReplyTo(d).mti = MTI_0810

\* C13: the reply to a network-management request has the request's field 7
\* and field 11 when the request has them, field 11 = "000000" when the request
\* has none (and the time of the reply as field 7 when the request has none),
\* and as field 70 the request's field 70, trimmed, or "000" when the request
\* has none.
C13_ReplyEchoesRequest ==
  \A d \in Dispatches :
    IsNetworkRequest(d) =>
      /\ Len(Writes(d)) = 1
      /\ ReplyTo(d).ok
      /\ {7, 11, 70} \subseteq DOMAIN ReplyTo(d).fields
      /\ 7 \in DOMAIN d.request.fields => ReplyTo(d).fields[7] = d.request.fields[7]
      /\ 7 \notin DOMAIN d.request.fields => ReplyTo(d).fields[7] \in Timestamps
      /\ ReplyTo(d).fields[11] =
           IF 11 \in DOMAIN d.request.fields THEN d.request.fields[11]
           ELSE Str(<<0, 0, 0, 0, 0, 0>>)
      /\ ReplyTo(d).fields[70] =
           IF 70 \in DOMAIN d.request.fields THEN Trim(d.request.fields[70])
           ELSE Str(<<0, 0, 0>>)

\* One chunk held a request with fields 7, 11 and 70 and a request with
\* neither field 7 nor field 11, and both have been answered.
C13_Witness ==
  /\ \E d \in Dispatches :
       /\ IsNetworkRequest(d)
       /\ {7, 11, 70} \subseteq DOMAIN d.request.fields
       /\ d.request.fields[7] \notin Timestamps
       /\ Len(Writes(d)) = 1
       /\ ReplyTo(d).fields[7] = d.request.fields[7]
       /\ ReplyTo(d).fields[11] = d.request.fields[11]
  /\ \E d \in Dispatches :
       /\ IsNetworkRequest(d)
       /\ DOMAIN d.request.fields = {70}
       /\ Len(Writes(d)) = 1
       /\ ReplyTo(d).fields[11] = Str(<<0, 0, 0, 0, 0, 0>>)

\* C14: for a message whose MTI begins with 08, from an acquirer or from an
\* issuer, the handler does one thing, the write of one 0810 to the socket the
\* message came from: nothing goes to another socket, and pendingByStan and
\* both role maps are as they were.
C14_NetworkRequestAnsweredLocally ==
  \A d \in Dispatches :
    IsNetworkRequest(d) =>
      /\ Len(d.effects) = 1
      /\ d.effects[1].kind = "write"
      /\ d.effects[1].socket = d.socket
      /\ ~IsFrameOf(d.effects[1].data, d.payload)
      /\ ReplyTo(d).ok
      /\ ReplyTo(d).mti = MTI_0810
      /\ d.after = d.before
      /\ acquirerConnections = last.acquirers
      /\ issuerConnections = last.issuers

\* An issuer has sent a 0800 with the STAN of a PendingEntry while the
\* acquirer of that entry is connected.
C14_Witness ==
  \E d \in Dispatches :
    /\ IsNetworkRequest(d)
    /\ d.role = "issuer"
    /\ HasStan(d)
    /\ MapHas(d.before, StanOf(d))
    /\ MapGet(d.before, StanOf(d)).socket \in OpenSockets
    /\ Len(Writes(d)) = 1
    /\ d.after = d.before

(***************************************************************************)
(* Properties of the roles                                                 *)
(***************************************************************************)

\* The addresses determineRole takes for the loopback.
Loopback == {"127.0.0.1", "::1"}

\* The address of a socket's connectionId: the remote address without ::ffff:.
HostOf(socket) == connections[socket].connectionId[1]

\* The open sockets whose peer is not on the loopback.
RemoteSockets == { c \in OpenSockets : HostOf(c) \notin Loopback }

\* C15: by its address without ::ffff:, a loopback peer is an acquirer also
\* when the address is in ISSUER_HOSTS, a peer in ACQUIRER_HOSTS is an acquirer
\* also when it is in ISSUER_HOSTS, and a peer that is in ISSUER_HOSTS only is
\* an issuer whatever is connected.
C15_ConfiguredRoles ==
  \A c \in OpenSockets :
    /\ HostOf(c) \in Loopback => connections[c].role = "acquirer"
    /\ HostOf(c) \in ACQUIRER_HOSTS => connections[c].role = "acquirer"
    /\ HostOf(c) \in ISSUER_HOSTS \ (ACQUIRER_HOSTS \cup Loopback) =>
         connections[c].role = "issuer"

\* The first peer to connect was in ISSUER_HOSTS only and is an issuer, and
\* ::ffff:127.0.0.1, listed in ISSUER_HOSTS, and a peer of both sets are
\* connected as acquirers.
C15_Witness ==
  /\ 1 \in OpenSockets
  /\ HostOf(1) \in ISSUER_HOSTS \ (ACQUIRER_HOSTS \cup Loopback)
  /\ connections[1].role = "issuer"
  /\ \E c \in OpenSockets :
       /\ HostOf(c) = "127.0.0.1"
       /\ HostOf(c) \in ISSUER_HOSTS
       /\ connections[c].role = "acquirer"
       /\ MapHas(acquirerConnections, connections[c].connectionId)
  /\ \E c \in OpenSockets :
       /\ HostOf(c) \in ACQUIRER_HOSTS \cap ISSUER_HOSTS
       /\ HostOf(c) \notin Loopback
       /\ connections[c].role = "acquirer"

\* The role of the peer that has just connected, when it is neither on the
\* loopback nor configured: acquirer when no acquirer was connected, else
\* issuer when no issuer was connected, else unknown.
FallbackRole ==
  (/\ last.op = "connection"
   /\ HostOf(last.socket) \notin Loopback \cup ACQUIRER_HOSTS \cup ISSUER_HOSTS)
    => connections[last.socket].role =
         IF Len(last.acquirers) = 0 THEN "acquirer"
         ELSE IF Len(last.issuers) = 0 THEN "issuer"
         ELSE "unknown"

\* C16 as stated: the fallback roles, and with no host configured the peer
\* that brings the connected remote peers to three is unknown.
C16_ThirdConnectedPeerUnknown ==
  /\ FallbackRole
  /\ (/\ ACQUIRER_HOSTS = {}
      /\ ISSUER_HOSTS = {}
      /\ last.op = "connection"
      /\ last.socket \in RemoteSockets
      /\ Cardinality(RemoteSockets) = 3)
       => connections[last.socket].role = "unknown"

\* C16: the fallback roles, and with no host configured, when the first three
\* peers to connect are remote and all three are connected, the third is
\* unknown.
C16_FallbackRoles ==
  /\ FallbackRole
  /\ (/\ ACQUIRER_HOSTS = {}
      /\ ISSUER_HOSTS = {}
      /\ {1, 2, 3} \subseteq RemoteSockets)
       => connections[3].role = "unknown"

\* With no host configured three remote peers have connected one after the
\* other: the first is the acquirer, the second the issuer, and the third,
\* which has just connected, is unknown.
C16_Witness ==
  /\ ACQUIRER_HOSTS = {}
  /\ ISSUER_HOSTS = {}
  /\ last.op = "connection"
  /\ last.socket = 3
  /\ {1, 2, 3} \subseteq RemoteSockets
  /\ connections[1].role = "acquirer"
  /\ connections[2].role = "issuer"
  /\ connections[3].role = "unknown"

\* The sockets registered in a role map.
Registered(map) == { map[i][2] : i \in DOMAIN map }

\* C17: a peer with the role unknown is connected, is in neither role map, and
\* for every message it sends the switch writes to no socket and leaves
\* pendingByStan as it was.
C17_UnknownPeerIgnored ==
  /\ last.op = "connection" => last.socket \in OpenSockets
  /\ \A c \in OpenSockets :
       connections[c].role = "unknown" =>
         /\ ~MapHas(acquirerConnections, connections[c].connectionId)
         /\ ~MapHas(issuerConnections, connections[c].connectionId)
         /\ c \notin Registered(acquirerConnections) \cup Registered(issuerConnections)
  /\ \A d \in Dispatches :
       d.role = "unknown" => d.effects = <<>> /\ d.after = d.before

\* An unknown peer has sent a 0100 with a STAN while an issuer is connected
\* and an entry is pending: nothing was written, and the peer is still
\* connected.
C17_Witness ==
  /\ last.op = "data"
  /\ last.socket \in OpenSockets
  /\ connections[last.socket].role = "unknown"
  /\ Len(last.issuers) > 0
  /\ pendingByStan /= <<>>
  /\ \E d \in Dispatches :
       /\ d.role = "unknown"
       /\ d.request.ok
       /\ d.request.mti = MTI_0100
       /\ HasStan(d)
       /\ d.effects = <<>>
       /\ d.after = d.before

\* C18: an acquirer's message whose MTI is neither 0100 nor 08xx, and an
\* issuer's message whose MTI is none of 08xx, 0110, 0210, 0410, has no effect:
\* no write, and pendingByStan as it was.
C18_OtherMtiDropped ==
  \A d \in Dispatches :
    (/\ d.request.ok
     /\ ~StartsWith08(d.request.mti)
     /\ \/ d.role = "acquirer" /\ d.request.mti /= MTI_0100
        \/ d.role = "issuer" /\ d.request.mti \notin {MTI_0110, MTI_0210, MTI_0410})
      => d.effects = <<>> /\ d.after = d.before

\* An issuer has sent a 0100 with the STAN of a PendingEntry whose acquirer is
\* connected: nothing was written and the entry is still there.
C18_Witness ==
  \E d \in Dispatches :
    /\ d.role = "issuer"
    /\ d.request.ok
    /\ d.request.mti = MTI_0100
    /\ HasStan(d)
    /\ MapHas(d.before, StanOf(d))
    /\ MapGet(d.before, StanOf(d)).socket \in OpenSockets
    /\ d.effects = <<>>
    /\ MapHas(pendingByStan, StanOf(d))

(***************************************************************************)
(* Properties of the framing                                               *)
(***************************************************************************)

RECURSIVE StreamEnd(_)
\* The number of bytes of the stream up to the end of its k-th frame.
StreamEnd(k) ==
  IF k = 0 THEN 0 ELSE StreamEnd(k - 1) + HEADER_LENGTH + Len(StreamPayloads[k])

\* The number of frames that are whole within the first sent bytes.
Arrived(sent) ==
  CHOOSE k \in 0..Len(StreamPayloads) :
    /\ StreamEnd(k) <= sent
    /\ k < Len(StreamPayloads) => sent < StreamEnd(k + 1)

\* The sockets whose peer is sending the stream.
Streaming == { c \in OpenSockets : c \in DOMAIN stream }

\* C19: however the stream has been cut into chunks, the payloads dispatched
\* so far are those of the frames that have arrived whole, each once and in
\* the order of the stream, and the bytes after the last whole frame are in
\* the connection's buffer.
C19_FramingIndependentOfChunks ==
  \A c \in Streaming :
    /\ stream[c].dispatched = SubSeq(StreamPayloads, 1, Arrived(stream[c].sent))
    /\ connections[c].buffer =
         SubSeq(Stream, StreamEnd(Arrived(stream[c].sent)) + 1, stream[c].sent)

\* The whole stream has arrived in more than one chunk: the last chunk
\* completed the last frame only, and every payload has been dispatched.
C19_Witness ==
  \E c \in Streaming :
    /\ stream[c].sent = Len(Stream)
    /\ stream[c].dispatched = StreamPayloads
    /\ connections[c].buffer = <<>>
    /\ last.op = "data"
    /\ last.socket = c
    /\ Len(last.dispatches) = 1

\* C20: a payload that does not parse, the empty payload of a frame of length
\* 0 among them, has no effect: no write, pendingByStan and the role maps as
\* they were, the connection still open and registered.  The frames after it
\* are dispatched: the payloads of a 'data' event are the frames the chunk
\* completed, and each request among them that parses is answered or forwarded.
C20_UnparsablePayloadSkipped ==
  /\ \A d \in Dispatches :
       ~d.request.ok => d.effects = <<>> /\ d.after = d.before
  /\ last.op = "data" =>
       /\ acquirerConnections = last.acquirers
       /\ issuerConnections = last.issuers
       /\ last.socket \in OpenSockets
       /\ connections[last.socket].role = "acquirer" =>
            MapHas(acquirerConnections, connections[last.socket].connectionId)
       /\ last.socket \in Streaming =>
            PayloadsOf(last.dispatches) =
              SubSeq(StreamPayloads,
                     Len(stream[last.socket].dispatched) - Len(last.dispatches) + 1,
                     Arrived(stream[last.socket].sent))
  /\ \A d \in Dispatches :
       (/\ d.request.ok
        /\ d.role = "acquirer"
        /\ d.request.mti = MTI_0100 \/ StartsWith08(d.request.mti))
         => Len(Writes(d)) = 1

\* One chunk held a frame of length 0, a frame whose payload does not parse
\* and then a network request: the first two did nothing and the request was
\* answered.
C20_Witness ==
  \E i, j, k \in DOMAIN last.dispatches :
    /\ i < j
    /\ j < k
    /\ last.dispatches[i].payload = <<>>
    /\ ~last.dispatches[i].request.ok
    /\ last.dispatches[j].payload /= <<>>
    /\ ~last.dispatches[j].request.ok
    /\ last.dispatches[j].effects = <<>>
    /\ last.dispatches[k].request.ok
    /\ Len(Writes(last.dispatches[k])) = 1
    /\ last.socket \in OpenSockets

(***************************************************************************)
(* Properties of the end of a connection and of the server                 *)
(***************************************************************************)

\* The keys under which a role map held the socket.
KeysOf(map, socket) == { map[i][1] : i \in { j \in DOMAIN map : map[j][2] = socket } }

\* The sockets an event wrote to, in its dispatches or of its own.
Targets(e) ==
  { x.socket : x \in { y \in UNION { Range(e.dispatches[i].effects) :
                                       i \in DOMAIN e.dispatches }
                               \cup Range(e.effects) : y.kind = "write" } }

\* C21: once 'close' has been handled the connectionId of the socket is in
\* neither role map, so the role maps hold open sockets only and nothing is
\* written to a closed socket: a 0100 with a STAN that arrives when no issuer
\* connection is open is answered with a 0110 with field 39 = 91, and the
\* injection picks an open acquirer.
C21_ClosedConnectionUnregistered ==
  /\ last.op \in {"close", "error"} =>
       /\ KeysOf(last.acquirers, last.socket) \cap MapKeys(acquirerConnections) = {}
       /\ KeysOf(last.issuers, last.socket) \cap MapKeys(issuerConnections) = {}
  /\ Registered(acquirerConnections) \cup Registered(issuerConnections)
       \subseteq OpenSockets
  /\ Targets(last) \subseteq OpenSockets
  /\ \A d \in Dispatches :
       (/\ IsRequest(d)
        /\ HasStan(d)
        /\ \A c \in OpenSockets : connections[c].role /= "issuer")
         => /\ Len(Writes(d)) = 1
            /\ Writes(d)[1].socket = d.socket
            /\ IsFailureReply(Writes(d)[1].data, StanOf(d), Str(<<9, 1>>))
  /\ last.op \in {"inject", "inject to"} =>
       /\ last.socket \in OpenSockets
       /\ connections[last.socket].role = "acquirer"
       /\ Targets(last) = {last.socket}

\* A request was forwarded to the only issuer, the issuer's connection has
\* ended, and the acquirer's next 0100 has been answered with 91.
C21_Witness ==
  /\ last.op = "data"
  /\ Sockets \ OpenSockets /= {}
  /\ \A c \in OpenSockets : connections[c].role /= "issuer"
  /\ \E d \in Dispatches :
       /\ IsRequest(d)
       /\ HasStan(d)
       /\ d.before /= <<>>
       /\ Len(Writes(d)) = 1
       /\ IsFailureReply(Writes(d)[1].data, StanOf(d), Str(<<9, 1>>))

\* The sockets that have an entry in a pendingByStan.
Owners(pending) == { pending[i][2].socket : i \in DOMAIN pending }

\* C22: when the 'error' of a socket has been handled the socket is closed, no
\* PendingEntry is left that it owns, the entries of the other sockets are
\* all there, and the socket is in neither role map.
C22_ErrorClosesAndCleans ==
  last.op = "error" =>
    /\ last.socket \notin OpenSockets
    /\ last.socket \notin broken
    /\ last.socket \notin Owners(pendingByStan)
    /\ pendingByStan = SelectSeq(last.before, LAMBDA e : e[2].socket /= last.socket)
    /\ last.socket \notin Registered(acquirerConnections)
                            \cup Registered(issuerConnections)
    /\ KeysOf(last.acquirers, last.socket) \cap MapKeys(acquirerConnections) = {}
    /\ KeysOf(last.issuers, last.socket) \cap MapKeys(issuerConnections) = {}

\* The connection of an acquirer with a PendingEntry has failed and its
\* 'error' has been handled: the entry is gone, and so is the acquirer from
\* its role map.
C22_Witness ==
  /\ last.op = "error"
  /\ last.socket \in Owners(last.before)
  /\ last.socket \in Registered(last.acquirers)
  /\ last.socket \notin Owners(pendingByStan)
  /\ last.socket \notin Registered(acquirerConnections)

\* A 0100 with a STAN was handled while the connection of the issuer it
\* goes to, the first one registered, had failed.
ForwardFailed(d) ==
  /\ IsRequest(d) /\ HasStan(d)
  /\ getFirstSocket(last.issuers) /= NoSocket
  /\ getFirstSocket(last.issuers) \in broken

\* C23: when the write that forwards a 0100 goes to an issuer whose connection
\* has failed, the PendingEntry of its STAN is in the table for the acquirer,
\* nothing is written to the acquirer, and the frames after it in the chunk
\* are handled: the switch does for them what it does when the write succeeds.
\* The 'error' of the issuer that follows leaves the table as it is.
C23_FailedForwardKeepsEntry ==
  /\ \A i \in DOMAIN last.dispatches :
       ForwardFailed(last.dispatches[i]) =>
         /\ IsForwarded(last.dispatches[i])
         /\ MapHas(last.dispatches[i].after, StanOf(last.dispatches[i]))
         /\ MapGet(last.dispatches[i].after, StanOf(last.dispatches[i])).socket
              = last.dispatches[i].socket
         /\ MapHas(pendingByStan, StanOf(last.dispatches[i]))
         /\ \A j \in DOMAIN last.dispatches[i].effects :
              last.dispatches[i].effects[j].kind = "write" =>
                last.dispatches[i].effects[j].socket /= last.dispatches[i].socket
         /\ last.socket \in OpenSockets
         /\ connections[last.socket].buffer = <<>>
         /\ \A k \in (i + 1)..Len(last.dispatches) :
              (IsRequest(last.dispatches[k]) /\ HasStan(last.dispatches[k])) =>
                /\ Len(Writes(last.dispatches[k])) = 1
                /\ MapHas(last.dispatches[k].after, StanOf(last.dispatches[k]))
  /\ (last.op = "error" /\ last.socket \in Registered(last.issuers)) =>
       pendingByStan = last.before

\* An acquirer has sent two requests in one chunk while the connection of
\* the only issuer had failed: both have an entry and nothing came back.
C23_Witness ==
  /\ Len(last.dispatches) = 2
  /\ ForwardFailed(last.dispatches[1])
  /\ ForwardFailed(last.dispatches[2])
  /\ StanOf(last.dispatches[1]) /= StanOf(last.dispatches[2])
  /\ MapHas(pendingByStan, StanOf(last.dispatches[1]))
  /\ MapHas(pendingByStan, StanOf(last.dispatches[2]))
  /\ Targets(last) \subseteq broken

\* C24: once the shutdown signal has been handled the server listens no more
\* and no connection is left open, so that the process can exit.
C24_ShutdownClosesConnections ==
  last.op = "shutdown" => (server /= "listening" /\ OpenSockets = {})

\* The signal has been handled while a peer was connected: the server has
\* stopped listening, the connection is open and the process has not exited.
C24_Witness ==
  /\ last.op = "shutdown"
  /\ server = "closing"
  /\ OpenSockets /= {}

(***************************************************************************)
(* The codec applied to digit strings, field sets, messages and buffers    *)
(***************************************************************************)

\* src/src/iso8583/bcd.js.
asciiToBcd(value, digitCount) ==
  LET normalized == IF Len(value) % 2 = 0 THEN value ELSE <<48>> \o value
  IN IF \E i \in DOMAIN normalized : ~IsDigit(normalized[i])
     THEN [ok |-> FALSE, value |-> <<>>]
     ELSE [ok |-> TRUE,
           value |-> [k \in 1..(Len(normalized) \div 2) |->
                        16 * (normalized[2 * k - 1] - 48)
                          + (normalized[2 * k] - 48)]]

\* The decimal digits of every nibble of the buffer.
RECURSIVE NibbleDigits(_)
NibbleDigits(buffer) ==
  IF buffer = <<>> THEN <<>>
  ELSE NumToString(buffer[1] \div 16) \o NumToString(buffer[1] % 16)
         \o NibbleDigits(Tail(buffer))

bcdToAscii(buffer, digitCount) ==
  LET Sliced(ascii) == Slice(ascii, Len(ascii) - digitCount, Len(ascii))
  IN Sliced(NibbleDigits(buffer))

\* buildBitmap of src/src/iso8583/builder.js: the bitmap as bytes.
builder_buildBitmap(fieldNumbers) ==
  LET highest == IF Len(fieldNumbers) > 0 THEN fieldNumbers[Len(fieldNumbers)] ELSE 0
      bitmapLength == IF highest > 64 THEN 16 ELSE 8
      Byte(b, bits) == IF b = 1 /\ bitmapLength = 16 /\ bits < 128
                       THEN bits + 128 ELSE bits
  IN IF 1 \in Range(fieldNumbers) THEN [ok |-> FALSE, value |-> <<>>]
     ELSE [ok |-> TRUE,
           value |-> [b \in 1..bitmapLength |->
                        Byte(b, BitmapByte(Range(fieldNumbers), 8 * (b - 1) + 1))]]

\* The longest digit string given to the BCD functions.
MaxDigits == 3

DigitStrings == UNION { [1..n -> 48..57] : n \in 0..MaxDigits }

\* The field numbers at the ends of the bytes and of the halves of a bitmap.
BitmapBoundary == {2, 8, 9, 63, 64, 65, 66, 72, 127, 128}

\* The sets given to buildBitmap: every set of at most two fields of 2..128
\* and every set of fields at the boundaries.
FieldSets ==
  {{}} \cup { {a, b} : a, b \in 2..128 } \cup SUBSET BitmapBoundary

Repeat(n, c) == [i \in 1..n |-> c]

\* Values of field fieldNum that meet its catalog entry: all digits for N,
\* the declared length for FIXED, no more than the maximum for LLVAR and
\* LLLVAR (the shortest ones, the ones around a length of 100, the longest).
FieldValues(fieldNum) ==
  LET fieldDef == ISO8583_FIELDS[fieldNum]
      Counting(n) == [i \in 1..n |-> 48 + (i % 10)]
      Spaced(n) == IF n < 3 THEN Repeat(n, 66)
                   ELSE <<32, 67>> \o Repeat(n - 3, 68) \o <<32>>
      lengths == IF fieldDef.type = "FIXED" THEN {fieldDef.length}
                 ELSE { n \in {0, 1, 2, 99, 100, fieldDef.length} :
                          n <= fieldDef.length }
  IN IF fieldDef.format = "N"
     THEN { Counting(n) : n \in lengths } \cup { Repeat(n, 48) : n \in lengths }
     ELSE IF fieldDef.format \in {"AN", "ANS"}
     THEN { Repeat(n, 65) : n \in lengths } \cup { Spaced(n) : n \in lengths }
     ELSE { Repeat(n, 70) : n \in lengths }

\* Values of field fieldNum that are one character shorter and one character
\* longer than its catalog entry allows.
OffValues(fieldNum) ==
  LET fieldDef == ISO8583_FIELDS[fieldNum]
      lengths == IF fieldDef.type = "FIXED"
                 THEN {fieldDef.length - 1, fieldDef.length + 1}
                 ELSE {fieldDef.length + 1}
  IN IF fieldDef.format = "N"
     THEN { [i \in 1..n |-> 48 + (i % 10)] : n \in lengths }
     ELSE { Repeat(n, 65) : n \in lengths }

\* normalizeNumeric of src/src/iso8583/builder.js.
normalizeNumeric(value, length) ==
  LET Sliced(padded) == Slice(padded, 0 - length, Len(padded))
  IN IF \E i \in DOMAIN value : ~IsDigit(value[i])
     THEN [ok |-> FALSE, value |-> <<>>]
     ELSE [ok |-> TRUE, value |-> Sliced(PadStart(value, length, 48))]

\* The fields of the messages given to pack: every type and every format of
\* the catalog, and field 8, which the catalog does not have.
CodecFields == {2, 3, 19, 35, 39, 41, 48, 52, 103, 112}
UnknownFields == {8}

\* The most fields of a message given to pack.
MaxMessageFields == 2

CodecMessages ==
  LET Values(n) == IF n \in DOMAIN ISO8583_FIELDS THEN FieldValues(n)
                   ELSE { Repeat(k, 65) : k \in {0, 2} }
      domains == { D \in SUBSET (CodecFields \cup UnknownFields) :
                     Cardinality(D) \in 1..MaxMessageFields }
      Fields(D) == { f \in [D -> UNION { Values(n) : n \in D }] :
                       \A n \in D : f[n] \in Values(n) }
  IN { [mti |-> MTI_0100, bitmap |-> <<>>, fields |-> f] :
         f \in UNION { Fields(D) : D \in domains } }

\* What follows the last field in a buffer given to unpackFromBuffer.
Trailing == { <<0>>, <<32>>, <<65, 66>> }

\* How many bytes a buffer given to unpackFromBuffer lacks at its end.
Cuts == {1, 2}

Input(kind, value) == [op |-> "input", kind |-> kind, value |-> value]

CodecInit ==
  /\ \E h \in Configurations :
       /\ ACQUIRER_HOSTS = h.acquirers
       /\ ISSUER_HOSTS = h.issuers
  /\ connections = <<>>
  /\ acquirerConnections = <<>>
  /\ issuerConnections = <<>>
  /\ pendingByStan = <<>>
  /\ last = [op |-> "start", socket |-> NoSocket, before |-> <<>>,
             acquirers |-> <<>>, issuers |-> <<>>, dispatches |-> <<>>,
             effects |-> <<>>,
             previous |-> [displaced |-> {}, purged |-> {}, stale |-> {},
                           consumed |-> {}]]
  /\ stream = <<>>
  /\ broken = {}
  /\ server = "listening"
  /\ \/ \E v \in DigitStrings : codec = Input("digits", v)
     \/ \E S \in FieldSets : codec = Input("fields", S)
     \/ \E m \in CodecMessages : codec = Input("message", m)
     \/ \E m \in { x \in CodecMessages : Cardinality(DOMAIN x.fields) = 1 },
           t \in Trailing :
          codec = Input("buffer", [message |-> m, trailing |-> t])
     \/ \E n \in CodecFields \cup {11} :
          \E v \in FieldValues(n) \cup OffValues(n) :
            codec = Input("field", [field |-> n, value |-> v])
     \/ \E m \in { x \in CodecMessages : Cardinality(DOMAIN x.fields) = 1 },
           k \in Cuts :
          codec = Input("truncated", [message |-> m, cut |-> k])

\* One function of the codec applied to the input of its kind.
Apply(kind, result) ==
  /\ codec.op = "input"
  /\ codec.kind = kind
  /\ codec' = result
  /\ UNCHANGED <<ACQUIRER_HOSTS, ISSUER_HOSTS, connections, acquirerConnections,
                 issuerConnections, pendingByStan, last, stream, broken, server>>

\* encodeBCD and decodeBCD of the encoder, asciiToBcd and bcdToAscii of bcd.js.
ApplyBCD ==
  LET Result(v, encoded, bcd) ==
        [op |-> "bcd", value |-> v, encoded |-> encoded,
         decoded |-> decodeBCD(encoded, Len(v)),
         bcd |-> bcd,
         ascii |-> bcdToAscii(bcd.value, Len(v))]
  IN Apply("digits",
           Result(codec.value, encodeBCD(codec.value),
                  asciiToBcd(codec.value, Len(codec.value))))

\* buildBitmap and parseBitmap of the encoder, buildBitmap of builder.js.
ApplyBitmap ==
  LET Result(S, built) ==
        [op |-> "bitmap", fields |-> S, bitmap |-> FromHex(built.value),
         parsed |-> parseBitmap(built.value),
         builder |-> builder_buildBitmap(SortedSeq(S))]
  IN Apply("fields", Result(codec.value, buildBitmap(SortedSeq(codec.value))))

\* pack, as packIsoMessage calls it, and unpackFromBuffer of what it returns.
ApplyPack ==
  LET Result(m, packed, buffer) ==
        [op |-> "pack", message |-> m, packed |-> packed, buffer |-> buffer,
         unpacked |-> unpackFromBuffer(buffer)]
  IN Apply("message",
           Result(codec.value, pack(codec.value),
                  packIsoMessage(codec.value.mti, codec.value.fields)))

\* unpackFromBuffer of a packed message with bytes after its last field.
ApplyUnpack ==
  LET Result(m, t, buffer) ==
        [op |-> "unpack", message |-> m, trailing |-> t, buffer |-> buffer \o t,
         whole |-> unpackFromBuffer(buffer),
         unpacked |-> unpackFromBuffer(buffer \o t)]
  IN Apply("buffer",
           Result(codec.value.message, codec.value.trailing,
                  packIsoMessage(codec.value.message.mti,
                                 codec.value.message.fields)))

\* unpackFromBuffer of a packed message without its last bytes.
ApplyCut ==
  LET Result(m, k, buffer) ==
        [op |-> "cut", message |-> m, cut |-> k,
         buffer |-> SubSeq(buffer, 1, Len(buffer) - k),
         whole |-> unpackFromBuffer(buffer),
         unpacked |-> unpackFromBuffer(SubSeq(buffer, 1, Len(buffer) - k))]
  IN Apply("truncated",
           Result(codec.value.message, codec.value.cut,
                  packIsoMessage(codec.value.message.mti,
                                 codec.value.message.fields)))

\* encodeField, alone and in pack, of a value of any length; normalizeNumeric
\* of builder.js for a fixed numeric field.
ApplyField ==
  LET Result(n, v) ==
        [op |-> "field", field |-> n, value |-> v,
         encoded |-> encodeField(n, v),
         packed |-> pack([mti |-> MTI_0100, bitmap |-> <<>>, fields |-> (n :> v)]),
         normalized |-> normalizeNumeric(v, ISO8583_FIELDS[n].length)]
  IN Apply("field", Result(codec.value.field, codec.value.value))

CodecNext ==
  ApplyBCD \/ ApplyBitmap \/ ApplyPack \/ ApplyUnpack \/ ApplyCut \/ ApplyField

CodecSpec == CodecInit /\ [][CodecNext]_vars

(***************************************************************************)
(* Properties of the codec                                                 *)
(***************************************************************************)

\* Every field of the message has a catalog entry.
InCatalog(message) == DOMAIN message.fields \subseteq DOMAIN ISO8583_FIELDS

\* The decoded value of field fieldNum is the given one, space padding of an AN
\* or ANS field aside.
SameValue(fieldNum, given, decoded) ==
  IF ISO8583_FIELDS[fieldNum].format \in {"AN", "ANS"}
  THEN Trim(decoded) = Trim(given)
  ELSE decoded = given

\* unpacked is the message, space padding aside.
RoundTrip(message, unpacked) ==
  /\ unpacked.ok
  /\ unpacked.mti = message.mti
  /\ DOMAIN unpacked.fields = DOMAIN message.fields
  /\ \A n \in DOMAIN message.fields :
       SameValue(n, message.fields[n], unpacked.fields[n])

\* C25: unpackFromBuffer of the packed message gives back the MTI and the
\* fields of every message that meets the catalog, space padding of AN and ANS
\* fields aside, field 103 with up to 104 characters included.
C25_PackUnpackRoundTrip ==
  (codec.op = "pack" /\ InCatalog(codec.message)) =>
    RoundTrip(codec.message, codec.unpacked)

\* A message whose only field is field 103 with 104 characters has been
\* packed: its length prefix takes two bytes, and unpacking it does not give
\* the message back.
C25_Witness ==
  /\ codec.op = "pack"
  /\ DOMAIN codec.message.fields = {103}
  /\ Len(codec.message.fields[103]) = ISO8583_FIELDS[103].length
  /\ codec.packed.ok
  /\ SubSeq(codec.buffer, 21, 22) = <<1, 4>>
  /\ ~RoundTrip(codec.message, codec.unpacked)

\* C26: decoding the BCD encoding of a digit string to its length gives the
\* string back, with encodeBCD/decodeBCD and with asciiToBcd/bcdToAscii: a
\* string with an odd number of digits is encoded with one zero nibble in
\* front, in (n + 1) / 2 bytes, and the decoder drops that nibble.
C26_BCDRoundTrip ==
  codec.op = "bcd" =>
    /\ Len(codec.encoded) = CeilHalf(Len(codec.value))
    /\ Len(codec.value) % 2 = 1 =>
         /\ codec.encoded[1] \div 16 = 0
         /\ codec.encoded[Len(codec.encoded)] % 16
              = codec.value[Len(codec.value)] - 48
    /\ codec.decoded.ok
    /\ codec.decoded.value = codec.value
    /\ codec.bcd.ok
    /\ codec.bcd.value = codec.encoded
    /\ codec.ascii = codec.value

\* "907" has been encoded as 09 07 and decoded.
C26_Witness ==
  /\ codec.op = "bcd"
  /\ codec.value = Str(<<9, 0, 7>>)
  /\ codec.encoded = <<9, 7>>
  /\ codec.decoded.value = Str(<<9, 0, 7>>)

\* C27: parseBitmap of the bitmap that buildBitmap makes for a set of fields of
\* 2..128 lists the fields of the set, each once, and nothing else; field 1 is
\* never listed.
C27_BitmapRoundTrip ==
  codec.op = "bitmap" =>
    /\ codec.parsed.ok
    /\ Range(codec.parsed.value) = codec.fields
    /\ Len(codec.parsed.value) = Cardinality(codec.fields)
    /\ 1 \notin Range(codec.parsed.value)

\* The bitmap of {64, 65}, which has the indicator bit set, has been parsed.
C27_Witness ==
  /\ codec.op = "bitmap"
  /\ codec.fields = {64, 65}
  /\ codec.bitmap[1] = 128
  /\ codec.parsed.value = <<64, 65>>

\* The bit of field n in a bitmap: mask 1 << (7 - ((n - 1) mod 8)) of the byte
\* at index floor((n - 1) / 8).
FieldBit(bitmap, n) ==
  /\ (n - 1) \div 8 < Len(bitmap)
  /\ (bitmap[((n - 1) \div 8) + 1] \div (2 ^ (7 - ((n - 1) % 8)))) % 2 = 1

\* bitmap has 8 bytes and bit 0 clear when S has no field above 64, 16 bytes and
\* bit 0 set when it has one, and the bit of a field set exactly when the field
\* is in S.
BitmapOf(S, bitmap) ==
  /\ (\A n \in S : n <= 64) => (Len(bitmap) = 8 /\ bitmap[1] < 128)
  /\ (\E n \in S : n > 64) => (Len(bitmap) = 16 /\ bitmap[1] >= 128)
  /\ \A n \in 2..128 : FieldBit(bitmap, n) <=> n \in S

\* C28: the bitmap of an encoded message, from buildBitmap of the encoder and
\* from buildBitmap of builder.js, has 8 bytes and bit 0 clear when no field
\* is above 64, 16 bytes and bit 0 set when one is, and the bit of field n set
\* exactly when field n is present; pack puts that bitmap after the MTI.
C28_BitmapLayout ==
  /\ codec.op = "bitmap" =>
       /\ BitmapOf(codec.fields, codec.bitmap)
       /\ codec.builder.ok
       /\ BitmapOf(codec.fields, codec.builder.value)
  /\ (codec.op = "pack" /\ codec.packed.ok) =>
       LET size == IF \E n \in DOMAIN codec.message.fields : n > 64
                   THEN 16 ELSE 8
       IN BitmapOf(DOMAIN codec.message.fields, SubSeq(codec.buffer, 5, 4 + size))

\* The bitmap of the one field 65 has been built: 16 bytes, 80 00 .. then 80.
C28_Witness ==
  /\ codec.op = "bitmap"
  /\ codec.fields = {65}
  /\ codec.bitmap = <<128, 0, 0, 0, 0, 0, 0, 0, 128, 0, 0, 0, 0, 0, 0, 0>>
  /\ codec.builder.value = codec.bitmap

\* C29: unpackFromBuffer fails when bytes are left in the buffer after the
\* last field of the bitmap.
C29_TrailingBytesRejected ==
  (codec.op = "unpack" /\ codec.whole.ok /\ codec.trailing /= <<>>) =>
    ~codec.unpacked.ok

\* A 0100 with field 3 alone and two more bytes after it has been unpacked: the
\* result is the one of the message without them.
C29_Witness ==
  /\ codec.op = "unpack"
  /\ DOMAIN codec.message.fields = {3}
  /\ Len(codec.trailing) = 2
  /\ Len(codec.buffer) = 4 + 8 + 3 + 2
  /\ codec.unpacked.ok
  /\ codec.unpacked = codec.whole

\* C30: pack fails for a message with a field that has no catalog entry, and
\* so does unpackFromBuffer for a buffer whose bitmap has the bit of such a
\* field.
C30_UnknownFieldRejected ==
  (codec.op = "pack" /\ ~InCatalog(codec.message)) =>
    /\ ~codec.packed.ok
    /\ ~codec.unpacked.ok

\* A 0100 with field 8 = "AA" alone has been packed as the characters 02AA
\* after the bitmap 01 00 .., and unpacked into field 8 = "AA".
C30_Witness ==
  /\ codec.op = "pack"
  /\ DOMAIN codec.message.fields = {8}
  /\ codec.message.fields[8] = <<65, 65>>
  /\ codec.packed.ok
  /\ codec.buffer = MTI_0100 \o <<1, 0, 0, 0, 0, 0, 0, 0>> \o <<48, 50, 65, 65>>
  /\ codec.unpacked.ok
  /\ codec.unpacked.fields[8] = <<65, 65>>

\* C31: unpackFromBuffer fails for a buffer that ends before the last byte of
\* the fields of its bitmap, in a length prefix or in the data.
C31_TruncatedBufferRejected ==
  (codec.op = "cut" /\ InCatalog(codec.message)
     /\ RoundTrip(codec.message, codec.whole)) =>
    ~codec.unpacked.ok

\* A 0100 with field 48 = "AA" alone has been unpacked without its last byte:
\* the result has field 48 = "A".
C31_Witness ==
  /\ codec.op = "cut"
  /\ DOMAIN codec.message.fields = {48}
  /\ codec.message.fields[48] = <<65, 65>>
  /\ codec.cut = 1
  /\ codec.buffer = MTI_0100 \o <<0, 0, 0, 0, 0, 1, 0, 0>> \o <<0, 2, 65>>
  /\ codec.unpacked.ok
  /\ codec.unpacked.fields[48] = <<65>>

\* C32: encoding an LLVAR or LLLVAR field with a value longer than the maximum
\* of its catalog entry fails.
C32_OverlongValueRejected ==
  (codec.op = "field"
     /\ ISO8583_FIELDS[codec.field].type \in {"LLVAR", "LLLVAR"}
     /\ Len(codec.value) > ISO8583_FIELDS[codec.field].length) =>
    ~codec.packed.ok

\* Field 103, of at most 104 characters, has been encoded with 105: the
\* prefix 01 05 and the 105 characters.
C32_Witness ==
  /\ codec.op = "field"
  /\ codec.field = 103
  /\ Len(codec.value) = ISO8583_FIELDS[103].length + 1
  /\ codec.encoded = <<1, 5>> \o codec.value
  /\ codec.packed.ok
  /\ Len(codec.packed.value) = 4 + 16 + Len(codec.encoded)

\* C34: a fixed numeric field is encoded as its value with '0's in front up to
\* the declared length, or as the last digits of the value when it is longer,
\* by encodeField and by normalizeNumeric.
C34_NumericPaddedAndCutLeft ==
  (codec.op = "field"
     /\ ISO8583_FIELDS[codec.field].type = "FIXED"
     /\ ISO8583_FIELDS[codec.field].format = "N") =>
    LET length == ISO8583_FIELDS[codec.field].length
        expected == IF Len(codec.value) <= length
                    THEN PadStart(codec.value, length, 48)
                    ELSE SubSeq(codec.value, Len(codec.value) - length + 1,
                                Len(codec.value))
    IN /\ Len(codec.encoded) = CeilHalf(length)
       /\ decodeBCD(codec.encoded, length).value = expected
       /\ codec.normalized.ok
       /\ codec.normalized.value = expected

\* "1234567" has been encoded for field 11, of 6 digits: the encoder gives
\* 12 34 56, the builder's normalizeNumeric "234567".
C34_Witness ==
  /\ codec.op = "field"
  /\ codec.field = 11
  /\ codec.value = Str(<<1, 2, 3, 4, 5, 6, 7>>)
  /\ codec.encoded = <<18, 52, 86>>
  /\ codec.normalized.value = Str(<<2, 3, 4, 5, 6, 7>>)

(***************************************************************************)
(* Properties of the choice of the issuer and of the acquirer, and of the  *)
(* correlation table                                                       *)
(***************************************************************************)

\* The open sockets of the role, which are numbered in the order of their
\* connection.
OpenOfRole(role) == { c \in OpenSockets : connections[c].role = role }

\* C33: a forwarded 0100 is written to the issuer that connected first among
\* the issuers that are connected: with several issuers open every request
\* goes to the earliest one, and to the next one only when that one has closed.
C33_FirstRegisteredIssuer ==
  \A i \in DOMAIN last.dispatches :
    IsForwarded(last.dispatches[i]) =>
      \A j \in DOMAIN last.dispatches[i].effects :
        last.dispatches[i].effects[j].kind = "write" =>
          /\ last.dispatches[i].effects[j].socket \in OpenOfRole("issuer")
          /\ \A c \in OpenOfRole("issuer") :
               last.dispatches[i].effects[j].socket <= c

\* Two issuers are connected and a 0100 has been forwarded to the one that
\* connected first.
C33_Witness ==
  \E i \in DOMAIN last.dispatches :
    /\ IsForwarded(last.dispatches[i])
    /\ \E j \in DOMAIN last.dispatches[i].effects :
         /\ last.dispatches[i].effects[j].kind = "write"
         /\ \E c \in OpenOfRole("issuer") :
              last.dispatches[i].effects[j].socket < c

\* C35: sendAccountToAccountRequest without a connection id, when an acquirer
\* is connected, makes one write, of one frame that holds a 0100, to the
\* acquirer that connected first among those connected, and returns true;
\* when none is connected it writes nothing and returns false.  Either way
\* the correlation table is what it was.
C35_InjectionToFirstAcquirer ==
  /\ last.op = "inject" =>
       /\ Len(last.effects) = 1
       /\ last.effects[1].kind = "write"
       /\ last.effects[1].socket = last.socket
       /\ last.socket \in OpenOfRole("acquirer")
       /\ \A c \in OpenOfRole("acquirer") : last.socket <= c
       /\ Len(last.effects[1].data) >= 2
       /\ 256 * last.effects[1].data[1] + last.effects[1].data[2]
            = Len(last.effects[1].data) - 2
       /\ LET Request(message) == message.ok /\ message.mti = MTI_0100
          IN Request(unpackFromBuffer(SubSeq(last.effects[1].data, 3,
                                             Len(last.effects[1].data))))
       /\ pendingByStan = last.before
  /\ last.op = "inject failed" =>
       /\ OpenOfRole("acquirer") = {}
       /\ last.effects = <<>>
       /\ pendingByStan = last.before
  /\ last.op \in {"inject", "inject failed"} => last.dispatches = <<>>

\* Two acquirers are connected, an entry is pending, and the request has been
\* injected into the connection of the first one.
C35_Witness ==
  /\ last.op = "inject"
  /\ \E c \in OpenOfRole("acquirer") : last.socket < c
  /\ pendingByStan /= <<>>
  /\ Len(last.effects) = 1

\* C36: a 0110, 0210 or 0410 whose STAN has a PendingEntry is delivered
\* whichever issuer sends it: it is written once, as one frame of the bytes
\* received, to the acquirer of the entry, and the entry is removed; a response
\* whose STAN has no entry, the one of the issuer the request went to
\* included when another issuer has answered before it, is dropped.
C36_ResponseFromAnyIssuer ==
  \A i \in DOMAIN last.dispatches :
    LET d == last.dispatches[i]
    IN /\ IsMatched(d) =>
            /\ Len(Writes(d)) = 1
            /\ Writes(d)[1].socket = MapGet(d.before, StanOf(d)).socket
            /\ Writes(d)[1].data = wrapWithHeader(d.payload)
            /\ ~MapHas(d.after, StanOf(d))
       /\ IsOrphan(d) =>
            /\ Writes(d) = <<>>
            /\ d.after = d.before

\* The issuer that connected second has sent a response whose STAN has an
\* entry while the issuer that connected first, the one every request was
\* forwarded to, is connected: the response has gone to the acquirer.
C36_Witness ==
  /\ last.socket \in OpenOfRole("issuer")
  /\ \E c \in OpenOfRole("issuer") : c < last.socket
  /\ \E i \in DOMAIN last.dispatches :
       /\ IsMatched(last.dispatches[i])
       /\ Len(Writes(last.dispatches[i])) = 1
       /\ ~MapHas(pendingByStan, StanOf(last.dispatches[i]))

\* C37: the 'close' (or the 'error') of an issuer's connection leaves the
\* correlation table as it was, the entries of the requests forwarded to it
\* included; an entry leaves the table only when a response with its STAN is
\* dispatched or when the socket of its acquirer closes, and with no other
\* event.
C37_IssuerCloseKeepsEntries ==
  /\ (last.op \in {"close", "error"} /\ last.socket \in Registered(last.issuers)) =>
       pendingByStan = last.before
  /\ \A k \in DOMAIN last.before :
       ~MapHas(pendingByStan, last.before[k][1]) =>
         \/ last.before[k][1] \in Consumed(last)
         \/ /\ last.op \in {"close", "error"}
            /\ last.before[k][2].socket = last.socket

\* The only issuer has closed while entries were pending: they are all there.
C37_Witness ==
  /\ last.op = "close"
  /\ last.socket \in Registered(last.issuers)
  /\ Len(last.before) = 2
  /\ pendingByStan = last.before
  /\ OpenOfRole("issuer") = {}

\* The writes of event e in the order they were made.
WritesOf(e) ==
  LET upTo[k \in 0..Len(e.dispatches)] ==
        IF k = 0 THEN <<>> ELSE upTo[k - 1] \o Writes(e.dispatches[k])
  IN upTo[Len(e.dispatches)] \o SelectSeq(e.effects, LAMBDA x : x.kind = "write")

\* The bytes of the writes ws one after the other.
BytesOf(ws) ==
  LET upTo[k \in 0..Len(ws)] == IF k = 0 THEN <<>> ELSE upTo[k - 1] \o ws[k].data
  IN upTo[Len(ws)]

\* C38: every write is one whole frame, two bytes that hold the length of the
\* payload, big-endian, and then the payload; and what a socket receives from
\* the writes of one event, the bytes of its writes one after the other, is
\* read back by the framing as these payloads, one for each write, with nothing
\* left over.
C38_WritesAreWholeFrames ==
  /\ \A k \in DOMAIN WritesOf(last) :
       /\ Len(WritesOf(last)[k].data) >= HEADER_LENGTH
       /\ 256 * WritesOf(last)[k].data[1] + WritesOf(last)[k].data[2]
            = Len(WritesOf(last)[k].data) - HEADER_LENGTH
  /\ \A i \in DOMAIN last.dispatches :
       IsForwarded(last.dispatches[i]) =>
         \A k \in DOMAIN Writes(last.dispatches[i]) :
           Writes(last.dispatches[i])[k].data
             = <<Len(last.dispatches[i].payload) \div 256,
                 Len(last.dispatches[i].payload) % 256>>
                 \o last.dispatches[i].payload
  /\ \A c \in Sockets :
       LET ws == SelectSeq(WritesOf(last), LAMBDA x : x.socket = c)
           framed == FrameLoop(BytesOf(ws), <<>>)
       IN /\ framed.buffer = <<>>
          /\ framed.payloads
               = [k \in DOMAIN ws |-> SubSeq(ws[k].data, HEADER_LENGTH + 1,
                                             Len(ws[k].data))]

\* Two requests of one chunk have been forwarded to one issuer by two writes.
C38_Witness ==
  /\ Len(WritesOf(last)) = 2
  /\ WritesOf(last)[1].socket = WritesOf(last)[2].socket
  /\ WritesOf(last)[1].socket /= last.socket
  /\ WritesOf(last)[1].data /= WritesOf(last)[2].data

\* C39: the socket of every PendingEntry is open, has the role acquirer, and is
\* the socket that the acquirer map holds under the connectionId of the entry.
C39_EntriesOfOpenAcquirers ==
  \A k \in DOMAIN pendingByStan :
    /\ pendingByStan[k][2].socket \in OpenSockets
    /\ connections[pendingByStan[k][2].socket].role = "acquirer"
    /\ connections[pendingByStan[k][2].socket].connectionId
         = pendingByStan[k][2].connectionId
    /\ MapHas(acquirerConnections, pendingByStan[k][2].connectionId)
    /\ MapGet(acquirerConnections, pendingByStan[k][2].connectionId)
         = pendingByStan[k][2].socket

\* An acquirer with an entry has closed, and the entry of another acquirer is
\* in the table.
C39_Witness ==
  /\ last.op = "close"
  /\ last.before /= pendingByStan
  /\ pendingByStan /= <<>>
====
